---- MODULE Spec2Model ----
(***************************************************************************)
(* Model of the DevWorkspace controller load test (k6 script): the         *)
(* per-iteration create -> poll -> delete state machine, the resource      *)
(* metrics sampler invoked on poll ticks, the run-wide k6 metrics, the k6  *)
(* scenario schedule with the final cleanup, and the threshold verdict.    *)
(***************************************************************************)
EXTENDS Integers, Sequences, FiniteSets, Bags, TLC

(***************************************************************************)
(* Bounds of the model                                                     *)
(***************************************************************************)
\* iterations of the main scenario started in a run, over all virtual users
MaxIterations == 2
\* largest DEV_WORKSPACE_READY_TIMEOUT_IN_SECONDS tried
MaxTimeout == 15
\* pod samples folded into one usage trend over a run
MaxSamples == 1
\* largest restart count a pod reports
MaxRestarts == 3
\* iterations of the run whose final aggregates the thresholds are evaluated on
RunSize == 6
\* metric updates of one iteration where the order of updates is studied
MaxUpdates == 2
MaxNamespaces == 2

\* the calls of the identity checks of the webhook load test
MaxPatches == 2

\* the tests of the plan of the suite runner
MaxTests == 3

\* the backup Jobs the hook finds
MaxJobs == 2

\* the virtual users of the main scenario (__VU)
VUs == {1, 2}

(***************************************************************************)
(* Program constants                                                       *)
(***************************************************************************)
pollWaitInterval == 10
\* maxAttempts of the poll loop of devworkspace_load_test.js
legacyMaxAttempts == 120
maxCpuMillicores == 250
maxMemoryBytes == 200 * 1024 * 1024

\* durations in ms that the thresholds are evaluated over: one below every
\* latency ceiling of the thresholds, one above every latency ceiling
Durations == {100, 70000}
\* the duration an iteration measures with Date.now(); no branch of an
\* iteration depends on its value
Measured == {100}

(***************************************************************************)
(* Kubernetes quantity strings.  A string such as "250m", "0.25" or        *)
(* "200Mi" is kept as its integer part, its fraction in thousandths and    *)
(* its suffix.                                                             *)
(***************************************************************************)
Q(whole, frac, suffix) == [whole |-> whole, frac |-> frac, suffix |-> suffix]

\* parseInt(str): the leading integer digits
parseInt(str) == str.whole

\* Math.round(n / d) for n >= 0, d > 0 (round half up)
RoundDiv(n, d) == (2 * n + d) \div (2 * d)

\* a variant that divides a number of nanocores as if it were microcores;
\* the properties of the conversions must tell it from the source's
parseCpuNanoAsMicro(cpuStr) ==
    IF cpuStr.suffix = "n" \/ cpuStr.suffix = "u"
    THEN RoundDiv(parseInt(cpuStr), 1000)
    ELSE IF cpuStr.suffix = "m" THEN parseInt(cpuStr)
    ELSE cpuStr.whole * 1000 + cpuStr.frac

parseCpuToMillicores(cpuStr) ==
    IF cpuStr.suffix = "n" THEN RoundDiv(parseInt(cpuStr), 1000000)
    ELSE IF cpuStr.suffix = "u" THEN RoundDiv(parseInt(cpuStr), 1000)
    ELSE IF cpuStr.suffix = "m" THEN parseInt(cpuStr)
    ELSE cpuStr.whole * 1000 + cpuStr.frac

\* the byte value as a fraction num/den (the n, u, m branches divide)
parseMemoryToBytes(memStr) ==
    IF memStr.suffix = "Ki" THEN [num |-> parseInt(memStr) * 1024, den |-> 1]
    ELSE IF memStr.suffix = "Mi" THEN [num |-> parseInt(memStr) * 1024 * 1024, den |-> 1]
    ELSE IF memStr.suffix = "Gi" THEN [num |-> parseInt(memStr) * 1024 * 1024 * 1024, den |-> 1]
    ELSE IF memStr.suffix = "n" THEN [num |-> parseInt(memStr), den |-> 1000000000]
    ELSE IF memStr.suffix = "u" THEN [num |-> parseInt(memStr), den |-> 1000000]
    ELSE IF memStr.suffix = "m" THEN [num |-> parseInt(memStr), den |-> 1000]
    ELSE [num |-> parseInt(memStr), den |-> 1]

\* r <= n for a fraction r and an integer n
FracLeq(r, n) ==
    \/ r.num \div r.den < n
    \/ r.num \div r.den = n /\ r.num % r.den = 0

(***************************************************************************)
(* The k6 metrics of the run: Counters are numbers, Trends are bags of     *)
(* the values added, Gauges hold the last value added.  The built-in       *)
(* "checks" rate is kept as its passes and failures; no handler reads it,  *)
(* and the results of the check() calls of an iteration are not tallied by *)
(* the iteration actions: the rate enters the model where the thresholds   *)
(* are evaluated.  The memory trends hold bytes (the source adds the same  *)
(* value divided by 1024 * 1024).                                          *)
(***************************************************************************)
Add(trend, x) == trend (+) SetToBag({x})

NewMetrics ==
    [devworkspaceCreateDuration |-> EmptyBag,
     devworkspaceReady          |-> 0,
     devworkspaceDeleteDuration |-> EmptyBag,
     devworkspaceReadyDuration  |-> EmptyBag,
     devworkspaceReadyFailed    |-> 0,
     devworkspaceStarting       |-> 0,
     operatorCpu                |-> EmptyBag,
     operatorMemory             |-> EmptyBag,
     etcdCpu                    |-> EmptyBag,
     etcdMemory                 |-> EmptyBag,
     devworkspacesCreated       |-> 0,
     operatorCpuViolations      |-> 0,
     operatorMemViolations      |-> 0,
     operatorPodRestarts        |-> 0,
     etcdPodRestarts            |-> 0,
     checksPassed               |-> 0,
     checksFailed               |-> 0]

(***************************************************************************)
(* Resource Metrics Sampler                                                *)
(***************************************************************************)
\* restartCounterMetric.add(count) for every pod of the list, in order
RECURSIVE AddRestartCounts(_, _, _)
AddRestartCounts(m, gauge, counts) ==
    IF counts = <<>> THEN m
    ELSE AddRestartCounts([m EXCEPT ![gauge] = Head(counts)], gauge, Tail(counts))

\* checkPodRestarts with getPodRestartCounts: a non-200 answer gives no
\* entries, a 200 answer whose body is unusable makes JSON.parse throw
checkPodRestarts(m, gauge, res) ==
    IF res.status # 200 THEN [m |-> m, threw |-> FALSE]
    ELSE IF ~res.usable THEN [m |-> m, threw |-> TRUE]
    ELSE [m |-> AddRestartCounts(m, gauge, res.items), threw |-> FALSE]

\* a variant of the loop body that counts a sample at the ceiling as a
\* violation; the violation properties must tell it from the source's
SampleOperatorPodAtCeiling(m, pod) ==
    LET cpu    == parseCpuToMillicores(pod.cpu)
        memory == parseMemoryToBytes(pod.memory)
        m1 == [m EXCEPT !.operatorCpu = Add(@, cpu),
                        !.operatorMemory = Add(@, memory)]
        m2 == IF cpu >= maxCpuMillicores
              THEN [m1 EXCEPT !.operatorCpuViolations = @ + 1] ELSE m1
        m3 == IF ~FracLeq(memory, maxMemoryBytes - 1)
              THEN [m2 EXCEPT !.operatorMemViolations = @ + 1] ELSE m2
    IN  m3

\* the body of the loop over operatorPods
SampleOperatorPod(m, pod) ==
    LET cpu    == parseCpuToMillicores(pod.cpu)
        memory == parseMemoryToBytes(pod.memory)
        cpuOk  == cpu <= maxCpuMillicores
        memOk  == FracLeq(memory, maxMemoryBytes)
        m1 == [m EXCEPT !.operatorCpu = Add(@, cpu),
                        !.operatorMemory = Add(@, memory)]
        m2 == IF ~cpuOk THEN [m1 EXCEPT !.operatorCpuViolations = @ + 1] ELSE m1
        m3 == IF ~memOk THEN [m2 EXCEPT !.operatorMemViolations = @ + 1] ELSE m2
    IN  m3

RECURSIVE SampleOperatorPods(_, _)
SampleOperatorPods(m, pods) ==
    IF pods = <<>> THEN m
    ELSE SampleOperatorPods(
            IF Head(pods).operator THEN SampleOperatorPod(m, Head(pods)) ELSE m,
            Tail(pods))

checkDevWorkspaceOperatorMetrics(m, res, restartRes) ==
    IF res.status # 200 THEN [m |-> m, threw |-> FALSE]
    ELSE IF ~res.usable THEN [m |-> m, threw |-> TRUE]
    ELSE checkPodRestarts(SampleOperatorPods(m, res.items),
                          "operatorPodRestarts", restartRes)

SampleEtcdPod(m, pod) ==
    [m EXCEPT !.etcdCpu = Add(@, parseCpuToMillicores(pod.cpu)),
              !.etcdMemory = Add(@, parseMemoryToBytes(pod.memory))]

RECURSIVE SampleEtcdPods(_, _)
SampleEtcdPods(m, pods) ==
    IF pods = <<>> THEN m
    ELSE SampleEtcdPods(
            IF Head(pods).hasUsage THEN SampleEtcdPod(m, Head(pods)) ELSE m,
            Tail(pods))

\* res.items holds the pods whose name includes ETCD_POD_NAME_PATTERN
checkEtcdMetrics(m, res, restartRes) ==
    IF res.status # 200 THEN [m |-> m, threw |-> FALSE]
    ELSE IF ~res.usable THEN [m |-> m, threw |-> TRUE]
    ELSE IF res.items = <<>> THEN [m |-> m, threw |-> FALSE]
    ELSE checkPodRestarts(SampleEtcdPods(m, res.items),
                          "etcdPodRestarts", restartRes)

(***************************************************************************)
(* Answers of the API server                                               *)
(***************************************************************************)
\* GET of the DevWorkspace: a 200 answer with a status phase, a 200 answer
\* whose body does not parse, or a non-200 answer
StatusResponses ==
    {[status |-> 200, usable |-> TRUE, phase |-> p] :
        p \in {"Ready", "Running", "Failing", "Failed", "Error", "Starting"}}
    \cup {[status |-> 200, usable |-> FALSE, phase |-> ""],
          [status |-> 404, usable |-> TRUE,  phase |-> ""]}

\* a non-200 answer, and a 200 answer whose body is not the expected JSON
FailureResponses ==
    {[status |-> 503, usable |-> TRUE,  items |-> <<>>],
     [status |-> 200, usable |-> FALSE, items |-> <<>>]}

\* pods of the metrics API in the operator namespace; operator says whether
\* the pod name includes "devworkspace-controller"
OperatorPodSamples ==
    {[operator |-> TRUE,  cpu |-> Q(250, 0, "m"), memory |-> Q(200, 0, "Mi")],
     [operator |-> TRUE,  cpu |-> Q(251, 0, "m"), memory |-> Q(209715201, 0, "")],
     [operator |-> FALSE, cpu |-> Q(900, 0, "m"), memory |-> Q(900, 0, "Mi")]}

\* the lists of at most n elements of S
SeqsUpTo(S, n) == UNION {[1..k -> S] : k \in 0..n}

OperatorPodCount(pods) == Cardinality({i \in DOMAIN pods : pods[i].operator})

\* the answers of the metrics API that leave the operator trends within MaxSamples
MetricsResponses(m) ==
    FailureResponses \cup
    {[status |-> 200, usable |-> TRUE, items |-> pods] :
        pods \in {ps \in SeqsUpTo(OperatorPodSamples, MaxSamples) :
                    BagCardinality(m.operatorCpu) + OperatorPodCount(ps) <= MaxSamples}}

\* the answers of the pod list: the restart count of each pod
RestartResponses ==
    FailureResponses \cup
    {[status |-> 200, usable |-> TRUE, items |-> cs] :
        cs \in {<<>>, <<0, MaxRestarts>>, <<MaxRestarts, 0>>}}

EtcdPodSamples ==
    {[hasUsage |-> TRUE,  cpu |-> Q(100, 0, "m"), memory |-> Q(100, 0, "Mi")]}

EtcdPodCount(pods) == Cardinality({i \in DOMAIN pods : pods[i].hasUsage})

\* the answers of the metrics API that leave the etcd trends within MaxSamples
EtcdMetricsResponses(m) ==
    FailureResponses \cup
    {[status |-> 200, usable |-> TRUE, items |-> pods] :
        pods \in {ps \in SeqsUpTo(EtcdPodSamples, MaxSamples) :
                    BagCardinality(m.etcdCpu) + EtcdPodCount(ps) <= MaxSamples}}

EtcdRestartResponses ==
    FailureResponses \cup
    {[status |-> 200, usable |-> TRUE, items |-> <<0>>]}

(***************************************************************************)
(* State                                                                   *)
(***************************************************************************)
VARIABLES
    executorMode,                  \* EXECUTOR_MODE
    useSeparateNamespaces,         \* SEPARATE_NAMESPACES
    deleteDevWorkspaceAfterReady,  \* DELETE_DEVWORKSPACE_AFTER_READY
    devWorkspaceReadyTimeout,      \* DEV_WORKSPACE_READY_TIMEOUT_IN_SECONDS
    maxDevWorkspaces,              \* MAX_DEVWORKSPACES
    externalDevWorkspaceLink,      \* DEVWORKSPACE_LINK is not empty
    apiServer,                     \* KUBE_API is set (or the run is in-cluster)
    shouldCreateAutomountResources,  \* CREATE_AUTOMOUNT_RESOURCES
    vuId,                          \* __VU of each virtual user
    phase,            \* "setup", "aborted" (setup threw), and of the main
                      \* scenario: "stages", "gracefulStop", "stopped"
    cleanup,          \* final_cleanup: "notStarted", "done", "threw"
    verdict,          \* "pending", "passed", "failed"
    iterationInTest,  \* iterations of the main scenario started so far
    vu,               \* per virtual user: position and locals of its iteration
    it,               \* per virtual user: what its current or last iteration did
    metrics,          \* the k6 metrics of the run
    pending,          \* per virtual user: the metric updates its iteration has
                      \* made (done) and has yet to make (todo); used where the
                      \* order of the updates of concurrent iterations is studied
    requests,         \* HTTP requests sent so far: to DEVWORKSPACE_LINK
                      \* (template), by setup, by final_cleanup, and the
                      \* create POSTs of the iterations (create)
    units,            \* where the unit conversions are studied by themselves:
                      \* a CPU quantity and a memory number, and the values
                      \* parsed so far from the ways of writing them
    webhook,          \* the run of devworkspace_webhook_loadtest.js
    suite,            \* the run of the suite runner (run_all_loadtests.sh)
    hook              \* the run of the backup testing hook

vars == <<executorMode, useSeparateNamespaces, deleteDevWorkspaceAfterReady,
          devWorkspaceReadyTimeout, maxDevWorkspaces, externalDevWorkspaceLink,
          apiServer, shouldCreateAutomountResources, vuId,
          phase, cleanup, verdict, iterationInTest, vu, it, metrics, pending,
          requests, units, webhook, suite, hook>>

\* the state of the other scripts
scripts == <<webhook, suite, hook>>

config == <<executorMode, useSeparateNamespaces, deleteDevWorkspaceAfterReady,
            devWorkspaceReadyTimeout, maxDevWorkspaces, externalDevWorkspaceLink,
            apiServer, shouldCreateAutomountResources, vuId>>

NoRequests == [template |-> 0, setup |-> 0, cleanup |-> 0, create |-> 0]

NoWebhook == [pc |-> "off"]

NoSuite == [pc |-> "off"]

NoHook == [pc |-> "off"]

NoUnits == [micro |-> 0, number |-> <<0, "Ki">>, cpu |-> {}, memory |-> {}]

schedule == <<phase, cleanup, verdict>>

Classifications == {"Ready", "Failed", "TimedOut"}

NoUpdates == [v \in VUs |-> [done |-> <<>>, todo |-> <<>>]]

IdleVU == [pc |-> "idle", iter |-> 0, attempts |-> 0]

NewIteration ==
    [how |-> "none", createStatus |-> 0, failureSeen |-> FALSE, recorded |-> {},
     posts |-> 0, gets |-> 0, samplerCalls |-> 0, deletes |-> 0,
     inconclusiveGet |-> FALSE, templateAnswer |-> "none",
     created |-> <<>>, polled |-> <<>>, deleted |-> <<>>]

\* inconclusiveGet says that the GET of the poll tick in progress was answered
\* by a non-200 status or by a body that does not parse; it is reset when
\* the tick is over
TickOver(trace) == [trace EXCEPT !.inconclusiveGet = FALSE]

Timeouts == {MaxTimeout - 5, MaxTimeout}

Init ==
    /\ executorMode \in {"shared-iterations", "ramping-vus"}
    /\ useSeparateNamespaces \in BOOLEAN
    /\ deleteDevWorkspaceAfterReady \in BOOLEAN
    /\ devWorkspaceReadyTimeout \in Timeouts
    /\ maxDevWorkspaces \in {-1, 1, MaxIterations}
    /\ executorMode = "shared-iterations" <=> maxDevWorkspaces = MaxIterations
    /\ externalDevWorkspaceLink = FALSE
    /\ apiServer = TRUE
    /\ shouldCreateAutomountResources = FALSE
    /\ vuId = [v \in VUs |-> v]
    /\ phase = "stages"
    /\ cleanup = "notStarted"
    /\ verdict = "pending"
    /\ iterationInTest = 0
    /\ vu = [v \in VUs |-> IdleVU]
    /\ it = [v \in VUs |-> NewIteration]
    /\ metrics = NewMetrics
    /\ pending = NoUpdates
    /\ requests = NoRequests
    /\ units = NoUnits
    /\ webhook = NoWebhook
    /\ suite = NoSuite
    /\ hook = NoHook

(***************************************************************************)
(* One iteration of the default function                                   *)
(***************************************************************************)
\* the iteration of v ends: by return or in the catch block
EndIteration(v, how, trace) ==
    /\ vu' = [vu EXCEPT ![v] = [IdleVU EXCEPT !.iter = vu[v].iter + 1]]
    /\ it' = [it EXCEPT ![v] = [trace EXCEPT !.how = how]]

\* setup, which k6 runs once before the scenarios: detectClusterType sends
\* its GET and takes any answer; with CREATE_AUTOMOUNT_RESOURCES the two
\* POSTs follow, each throwing on an answer other than 201 and 409. A
\* request to a URL built from an undefined apiServer fails with status 0.
\* k6 aborts the run when setup throws.
SetupStatuses(server) == IF server THEN {201, 409, 403} ELSE {0}

setup ==
    /\ phase = "setup"
    /\ IF ~shouldCreateAutomountResources
       THEN /\ phase' = "stages"
            /\ requests' = [requests EXCEPT !.setup = @ + 1]
       ELSE \E configMap, secret \in SetupStatuses(apiServer) :
              IF configMap # 201 /\ configMap # 409
              THEN /\ phase' = "aborted"
                   /\ requests' = [requests EXCEPT !.setup = @ + 2]
              ELSE /\ phase' = IF secret # 201 /\ secret # 409
                               THEN "aborted" ELSE "stages"
                   /\ requests' = [requests EXCEPT !.setup = @ + 3]
    /\ UNCHANGED <<config, cleanup, verdict, iterationInTest, vu, it, metrics,
                   pending, units, scripts>>

\* the top of the default function: in ramping-vus mode an iteration past
\* maxDevWorkspaces returns at once; then the test of apiServer, whose
\* exception no catch block of the script takes
\* a variant that lets the iteration numbered maxDW through as well; the
\* properties of the limit must tell it from the source's
SkipIterationPastLimit(mode, maxDW, totalIterations) ==
    maxDW > 0 /\ mode = "ramping-vus" /\ totalIterations > maxDW

SkipIteration(mode, maxDW, totalIterations) ==
    maxDW > 0 /\ mode = "ramping-vus" /\ totalIterations >= maxDW

\* k6 starts the next iteration of v: only while the stages of the scenario
\* last, and in shared-iterations mode only while iterations are left
StartIteration(v) ==
    /\ phase = "stages"
    /\ vu[v].pc = "idle"
    /\ iterationInTest < MaxIterations
    /\ executorMode = "shared-iterations" => iterationInTest < maxDevWorkspaces
    /\ iterationInTest' = iterationInTest + 1
    /\ IF SkipIteration(executorMode, maxDevWorkspaces, iterationInTest)
       THEN EndIteration(v, "skipped", NewIteration)
       ELSE IF ~apiServer
       THEN EndIteration(v, "uncaught", NewIteration)
       ELSE /\ vu' = [vu EXCEPT ![v].pc =
                        IF useSeparateNamespaces THEN "namespace" ELSE "create"]
            /\ it' = [it EXCEPT ![v] = [NewIteration EXCEPT !.how = "running"]]
    /\ UNCHANGED <<config, schedule, metrics, pending, requests, units, scripts>>

\* createNewNamespace: anything but 201 and 409 throws into the catch block
createNewNamespace(v) ==
    /\ vu[v].pc = "namespace"
    /\ \E status \in {201, 409, 403} :
         IF status # 201 /\ status # 409
         THEN EndIteration(v, "exception", it[v])
         ELSE /\ vu' = [vu EXCEPT ![v].pc = "create"]
              /\ it' = it
    /\ UNCHANGED <<config, schedule, iterationInTest, metrics, pending, requests,
                   units, scripts>>

\* a variant that takes only 201 for a success; the create properties must
\* tell it from the source's
CreateAcceptedOnly201(status) == status = 201

CreateAccepted(status) == status = 201 \/ status = 409

\* the metrics createNewDevWorkspace leaves for a create answer
CreateMetrics(m, status, duration) ==
    IF ~CreateAccepted(status) THEN m
    ELSE [m EXCEPT !.devworkspaceCreateDuration = Add(@, duration),
                   !.devworkspacesCreated = @ + 1,
                   !.devworkspaceStarting = @ + 1]

\* the answers to the GET of the external template
TemplateResponses ==
    {[status |-> 200, usable |-> TRUE], [status |-> 200, usable |-> FALSE],
     [status |-> 404, usable |-> FALSE]}

TemplateAnswer(res) ==
    IF res.status # 200 THEN "non200"
    ELSE IF ~res.usable THEN "unparseable"
    ELSE "parsed"

\* a variant that goes on with whatever body a 200 answer carries; the
\* properties of the template fetch must tell it from the source's
TemplateReturnedAny200(res) == res.status = 200

\* downloadAndParseExternalWorkspace returns the manifest: it throws on a
\* status other than 200 and when response.json() throws
TemplateReturned(res) == res.status = 200 /\ res.usable

\* a number as the template literals render it
RECURSIVE Decimal(_)
Decimal(n) ==
    IF n < 10 THEN <<<<"0", "1", "2", "3", "4", "5", "6", "7", "8", "9">>[n + 1]>>
    ELSE Decimal(n \div 10) \o Decimal(n % 10)

\* a variant that leaves out the hyphen between the two numbers; the
\* properties of the names must tell it from the source's
DevWorkspaceNameUnseparated(id, iteration) ==
    <<"dw-test-">> \o Decimal(id) \o Decimal(iteration)

\* the name generateDevWorkspaceToCreate gives the manifest
DevWorkspaceName(id, iteration) ==
    <<"dw-test-">> \o Decimal(id) \o <<"-">> \o Decimal(iteration)

\* the name the default function polls and deletes
crName(id, iteration) ==
    <<"dw-test-">> \o Decimal(id) \o <<"-">> \o Decimal(iteration)

\* the namespace of the iteration
namespace(separate, id, iteration) ==
    IF separate
    THEN <<"load-test-ns-">> \o Decimal(id) \o <<"-">> \o Decimal(iteration)
    ELSE <<"loadtest-devworkspaces">>

\* the namespace and the name a request of the iteration of v addresses
Addressed(v, name) ==
    <<namespace(useSeparateNamespaces, vuId[v], vu[v].iter), name>>

\* the POST of createNewDevWorkspace and what follows it
doHttpPostDevWorkspaceCreate(v, generated) ==
    \E status \in {201, 409, 403}, duration \in Measured :
        LET trace == [generated EXCEPT
                         !.posts = @ + 1, !.createStatus = status,
                         !.created = Addressed(v, DevWorkspaceName(vuId[v], vu[v].iter))]
        IN  /\ metrics' = CreateMetrics(metrics, status, duration)
            /\ IF CreateAccepted(status)
               THEN /\ vu' = [vu EXCEPT ![v].pc = "poll"]
                    /\ it' = [it EXCEPT ![v] = trace]
               ELSE EndIteration(v, "createRejected", trace)

\* createNewDevWorkspace: generateDevWorkspaceToCreate fetches the external
\* template when one is configured, on every call; then the POST
createNewDevWorkspace(v) ==
    /\ vu[v].pc = "create"
    /\ IF externalDevWorkspaceLink
       THEN \E res \in TemplateResponses :
              LET fetched == [it[v] EXCEPT !.templateAnswer = TemplateAnswer(res)]
              IN  IF TemplateReturned(res)
                  THEN /\ requests' = [requests EXCEPT !.template = @ + 1,
                                                       !.create = @ + 1]
                       /\ doHttpPostDevWorkspaceCreate(v, fetched)
                  ELSE /\ requests' = [requests EXCEPT !.template = @ + 1]
                       /\ metrics' = metrics
                       /\ EndIteration(v, "exception", fetched)
       ELSE /\ requests' = [requests EXCEPT !.create = @ + 1]
            /\ doHttpPostDevWorkspaceCreate(v, it[v])
    /\ UNCHANGED <<config, schedule, iterationInTest, pending, units, scripts>>

\* attempts < maxAttempts, with maxAttempts = timeout / pollWaitInterval
\* (a division of numbers, not of integers)
AttemptsLeft(attempts, timeout) == attempts * pollWaitInterval < timeout

\* what a poll tick observes in the answer to its GET
Observe(res) ==
    IF res.status # 200 THEN "non200"
    ELSE IF ~res.usable THEN "unparseable"
    ELSE IF res.phase = "Ready" \/ res.phase = "Running" THEN "ready"
    ELSE IF res.phase = "Failing" \/ res.phase = "Failed" \/ res.phase = "Error"
         THEN "failed"
    ELSE "pending"

\* the classifications the code after the loop records: the timeout log
\* line, the ready counter, the failure counter
Recorded(isReady, isFailed, attempts, timeout) ==
    (IF ~isReady /\ ~isFailed /\ ~AttemptsLeft(attempts, timeout)
        THEN {"TimedOut"} ELSE {})
    \cup (IF isReady THEN {"Ready"} ELSE IF isFailed THEN {"Failed"} ELSE {})

\* a variant that counts a ready resource without recording its latency;
\* the properties of the counts must tell it from the source's
RecordOutcomeWithoutDuration(m, isReady, isFailed, duration) ==
    IF isReady
    THEN [m EXCEPT !.devworkspaceReady = @ + 1,
                   !.devworkspaceStarting = @ - 1]
    ELSE IF isFailed
    THEN [m EXCEPT !.devworkspaceReadyFailed = @ + 1,
                   !.devworkspaceStarting = @ - 1]
    ELSE [m EXCEPT !.devworkspaceStarting = @ - 1]

\* the metrics the code after the loop records
RecordOutcome(m, isReady, isFailed, duration) ==
    IF isReady
    THEN [m EXCEPT !.devworkspaceReady = @ + 1,
                   !.devworkspaceReadyDuration = Add(@, duration),
                   !.devworkspaceStarting = @ - 1]
    ELSE IF isFailed
    THEN [m EXCEPT !.devworkspaceReadyFailed = @ + 1,
                   !.devworkspaceStarting = @ - 1]
    ELSE [m EXCEPT !.devworkspaceStarting = @ - 1]

\* waitUntilDevWorkspaceIsReady returns to the default function
AfterWait(v, trace) ==
    IF deleteDevWorkspaceAfterReady
    THEN /\ vu' = [vu EXCEPT ![v].pc = "delete"]
         /\ it' = [it EXCEPT ![v] = trace]
    ELSE EndIteration(v, "completed", trace)

\* a variant that samples on the tick that observes a failure phase; the
\* sampler properties must tell it from the source's
SamplesUnlessReady(obs) == obs # "ready"

\* whether the loop goes on to the sampler after what its GET observed
SamplesAfter(obs) == obs # "ready" /\ obs # "failed"

\* one GET of the poll loop; a ready or failure phase leaves the loop and
\* records the outcome, anything else goes on to the sampler
PollGet(v) ==
    /\ vu[v].pc = "poll"
    /\ \E res \in StatusResponses, duration \in Measured :
         LET obs      == Observe(res)
             isReady  == obs = "ready"
             isFailed == obs = "failed"
             trace    == [it[v] EXCEPT !.gets = @ + 1,
                                      !.failureSeen = @ \/ obs = "failed",
                                      !.inconclusiveGet =
                                          res.status # 200 \/ ~res.usable,
                                      !.polled =
                                          Addressed(v, crName(vuId[v], vu[v].iter))]
         IN  IF SamplesAfter(obs)
             THEN /\ vu' = [vu EXCEPT ![v].pc = "operatorMetrics"]
                  /\ it' = [it EXCEPT ![v] = trace]
                  /\ metrics' = metrics
             ELSE /\ metrics' = RecordOutcome(metrics, isReady, isFailed, duration)
                  /\ AfterWait(v, [trace EXCEPT !.recorded =
                         @ \cup Recorded(isReady, isFailed, vu[v].attempts,
                                         devWorkspaceReadyTimeout)])
    /\ UNCHANGED <<config, schedule, iterationInTest, pending, requests, units, scripts>>

\* checkDevWorkspaceOperatorMetrics called from the poll loop
OperatorMetrics(v) ==
    /\ vu[v].pc = "operatorMetrics"
    /\ \E res \in MetricsResponses(metrics), restartRes \in RestartResponses :
         LET r     == checkDevWorkspaceOperatorMetrics(metrics, res, restartRes)
             trace == [it[v] EXCEPT !.samplerCalls = @ + 1]
         IN  /\ metrics' = r.m
             /\ IF r.threw
                THEN EndIteration(v, "exception", TickOver(trace))
                ELSE /\ vu' = [vu EXCEPT ![v].pc = "etcdMetrics"]
                     /\ it' = [it EXCEPT ![v] = trace]
    /\ UNCHANGED <<config, schedule, iterationInTest, pending, requests, units, scripts>>

\* checkEtcdMetrics, sleep(pollWaitInterval), attempts++ and the loop
\* condition; when no attempt is left the code after the loop runs
EtcdMetrics(v) ==
    /\ vu[v].pc = "etcdMetrics"
    /\ \E res \in EtcdMetricsResponses(metrics), restartRes \in EtcdRestartResponses :
         LET r        == checkEtcdMetrics(metrics, res, restartRes)
             attempts == vu[v].attempts + 1
         IN  IF r.threw
             THEN /\ metrics' = r.m
                  /\ EndIteration(v, "exception", TickOver(it[v]))
             ELSE IF AttemptsLeft(attempts, devWorkspaceReadyTimeout)
             THEN /\ metrics' = r.m
                  /\ vu' = [vu EXCEPT ![v].pc = "poll", ![v].attempts = attempts]
                  /\ it' = [it EXCEPT ![v] = TickOver(@)]
             ELSE /\ metrics' = RecordOutcome(r.m, FALSE, FALSE, 0)
                  /\ AfterWait(v, [TickOver(it[v]) EXCEPT !.recorded =
                         @ \cup Recorded(FALSE, FALSE, attempts,
                                         devWorkspaceReadyTimeout)])
    /\ UNCHANGED <<config, schedule, iterationInTest, pending, requests, units, scripts>>

\* the metrics deleteDevWorkspace leaves
DeleteMetrics(m, duration) ==
    [m EXCEPT !.devworkspaceDeleteDuration = Add(@, duration)]

deleteDevWorkspace(v) ==
    /\ vu[v].pc = "delete"
    /\ \E duration \in Measured :
         /\ metrics' = DeleteMetrics(metrics, duration)
         /\ EndIteration(v, "completed",
                [it[v] EXCEPT !.deletes = @ + 1,
                              !.deleted = Addressed(v, crName(vuId[v], vu[v].iter))])
    /\ UNCHANGED <<config, schedule, iterationInTest, pending, requests, units, scripts>>

(***************************************************************************)
(* The k6 schedule of the scenarios                                        *)
(***************************************************************************)
\* the stages of the main scenario (or its maxDuration) are over: no
\* iteration starts any more, the running ones get the gracefulStop period
\* (30s by default) to finish
ScenarioDurationElapsed ==
    /\ phase = "stages"
    /\ phase' = "gracefulStop"
    /\ UNCHANGED <<config, cleanup, verdict, iterationInTest, vu, it, metrics,
                   pending, requests, units, scripts>>

\* the gracefulStop period is over (or nothing runs any more): k6 interrupts
\* the iterations still running
GracefulStopElapsed ==
    /\ phase = "gracefulStop"
    /\ phase' = "stopped"
    /\ vu' = [v \in VUs |->
                IF vu[v].pc = "idle" THEN vu[v]
                ELSE [IdleVU EXCEPT !.iter = vu[v].iter + 1]]
    /\ it' = [v \in VUs |->
                IF vu[v].pc = "idle" THEN it[v]
                ELSE [TickOver(it[v]) EXCEPT !.how = "interrupted"]]
    /\ UNCHANGED <<config, cleanup, verdict, iterationInTest, metrics, pending,
                   requests, units, scripts>>

\* shared-iterations: all the iterations of the scenario have been run
SharedIterationsDone ==
    /\ phase = "stages"
    /\ executorMode = "shared-iterations"
    /\ iterationInTest >= maxDevWorkspaces
    /\ \A v \in VUs : vu[v].pc = "idle"
    /\ phase' = "stopped"
    /\ UNCHANGED <<config, cleanup, verdict, iterationInTest, vu, it, metrics,
                   pending, requests, units, scripts>>

\* when k6 runs final_cleanup: in ramping-vus mode as the scenario whose
\* startTime is the duration of the stages, in shared-iterations mode from
\* teardown, which k6 calls after the scenarios have ended
CleanupMayStart(mode, ph) ==
    IF mode = "ramping-vus" THEN ph \in {"gracefulStop", "stopped"}
    ELSE ph = "stopped"

\* final_cleanup: the bulk DELETE by label in the load test namespace, or
\* the list of the labelled namespaces and a DELETE for each
Min(S) == CHOOSE x \in S : \A y \in S : x <= y
Max(S) == CHOOSE x \in S : \A y \in S : x >= y

\* the answers to the GET that lists the labelled namespaces
NamespaceListResponses ==
    {[status |-> 200, usable |-> TRUE, items |-> n] : n \in {0, MaxNamespaces}}
        \cup {[status |-> 503, usable |-> FALSE, items |-> 0],
              [status |-> 200, usable |-> FALSE, items |-> 0]}

\* the DELETE requests deleteAllSeparateNamespaces sends for the listed
\* namespaces, given the answers they get: deleteNamespace only warns
NamespaceDeletes(statuses) == Len(statuses)

\* the two DELETEs of the automount resources
AutomountDeletes(automount) == IF automount THEN 2 ELSE 0

final_cleanup ==
    /\ cleanup = "notStarted"
    /\ CleanupMayStart(executorMode, phase)
    /\ IF ~useSeparateNamespaces
       THEN \E status \in {200, 500} :
              /\ cleanup' = "done"
              /\ requests' = [requests EXCEPT !.cleanup =
                     @ + 1 + AutomountDeletes(shouldCreateAutomountResources)]
       ELSE \E res \in NamespaceListResponses :
            \E statuses \in [1..res.items -> {200, 404, 500}] :
              IF res.status = 200 /\ ~res.usable
              THEN /\ cleanup' = "threw"
                   /\ requests' = [requests EXCEPT !.cleanup = @ + 1]
              ELSE /\ cleanup' = "done"
                   /\ requests' = [requests EXCEPT !.cleanup =
                          @ + 1 + (IF res.status = 200
                                   THEN NamespaceDeletes(statuses) ELSE 0)
                            + AutomountDeletes(shouldCreateAutomountResources)]
    /\ UNCHANGED <<config, phase, verdict, iterationInTest, vu, it, metrics,
                   pending, units, scripts>>

(***************************************************************************)
(* Specification                                                           *)
(***************************************************************************)
Next ==
    \/ \E v \in VUs : StartIteration(v)
    \/ \E v \in VUs : createNewNamespace(v)
    \/ \E v \in VUs : createNewDevWorkspace(v)
    \/ \E v \in VUs : PollGet(v)
    \/ \E v \in VUs : OperatorMetrics(v)
    \/ \E v \in VUs : EtcdMetrics(v)
    \/ \E v \in VUs : deleteDevWorkspace(v)
    \/ ScenarioDurationElapsed
    \/ GracefulStopElapsed
    \/ SharedIterationsDone
    \/ final_cleanup

Spec == Init /\ [][Next]_vars

(***************************************************************************)
(* The thresholds and the verdict of the run                               *)
(***************************************************************************)
\* the values of a trend in ascending order
RECURSIVE Sorted(_)
Sorted(trend) ==
    IF BagToSet(trend) = {} THEN <<>>
    ELSE LET x == Min(BagToSet(trend))
         IN  <<x>> \o Sorted(trend (-) SetToBag({x}))

\* p(95) < ceiling, the percentile interpolated between the two values
\* around position 0.95 * (count - 1) of the sorted values
P95Below(trend, ceiling) ==
    LET values == Sorted(trend)
        n      == Len(values)
        pos    == 95 * (n - 1)
        j      == values[pos \div 100 + 1]
        k      == values[(pos + 99) \div 100 + 1]
    IN  IF n = 0 THEN 0 < ceiling
        ELSE IF n = 1 THEN values[1] < ceiling
        ELSE 100 * j + (k - j) * (pos % 100) < 100 * ceiling

\* a variant of the thresholds that lets five failures pass; the verdict
\* properties must tell it from the source's
ThresholdsAtMostFive(m) ==
    [checks |-> 100 * m.checksPassed > 95 * (m.checksPassed + m.checksFailed),
     devworkspace_create_duration |-> P95Below(m.devworkspaceCreateDuration, 15000),
     devworkspace_delete_duration |-> P95Below(m.devworkspaceDeleteDuration, 10000),
     devworkspace_ready_duration  |-> P95Below(m.devworkspaceReadyDuration, 60000),
     devworkspace_ready_failed    |-> m.devworkspaceReadyFailed <= 5,
     operator_cpu_violations      |-> m.operatorCpuViolations = 0,
     operator_mem_violations      |-> m.operatorMemViolations = 0,
     operator_pod_restarts_total  |-> m.operatorPodRestarts = 0,
     etcd_pod_restarts_total      |-> m.etcdPodRestarts = 0]

\* the thresholds of options, each TRUE when it is met; the rate of a
\* "checks" metric without samples is 0
Thresholds(m) ==
    [checks |-> 100 * m.checksPassed > 95 * (m.checksPassed + m.checksFailed),
     devworkspace_create_duration |-> P95Below(m.devworkspaceCreateDuration, 15000),
     devworkspace_delete_duration |-> P95Below(m.devworkspaceDeleteDuration, 10000),
     devworkspace_ready_duration  |-> P95Below(m.devworkspaceReadyDuration, 60000),
     devworkspace_ready_failed    |-> m.devworkspaceReadyFailed < 5,
     operator_cpu_violations      |-> m.operatorCpuViolations = 0,
     operator_mem_violations      |-> m.operatorMemViolations = 0,
     operator_pod_restarts_total  |-> m.operatorPodRestarts = 0,
     etcd_pod_restarts_total      |-> m.etcdPodRestarts = 0]

ThresholdBreached(m) == \E name \in DOMAIN Thresholds(m) : ~Thresholds(m)[name]

\* the end of the run: k6 evaluates the thresholds over the final metrics
EvaluateThresholds ==
    /\ phase = "stopped"
    /\ cleanup = "done"
    /\ verdict = "pending"
    /\ verdict' = IF ThresholdBreached(metrics) THEN "failed" ELSE "passed"
    /\ UNCHANGED <<config, phase, cleanup, iterationInTest, vu, it, metrics,
                   pending, requests, units, scripts>>

\* a trend of fast durations of Durations and slow ones
DurationBag(fast, slow) ==
    [d \in {x \in Durations : IF x = Min(Durations) THEN fast > 0 ELSE slow > 0} |->
        IF d = Min(Durations) THEN fast ELSE slow]

\* the number of check() calls of the run the verdict is studied on
ChecksOf(n) == 20 * n

\* the final metrics of a run of RunSize iterations, all of them created and
\* deleted, r.failed of them ended with a failure phase and the others ready
FinalMetrics(r) ==
    [NewMetrics EXCEPT
        !.devworkspaceCreateDuration = DurationBag(RunSize - r.slowCreate, r.slowCreate),
        !.devworkspacesCreated       = RunSize,
        !.devworkspaceReady          = RunSize - r.failed,
        !.devworkspaceReadyDuration  =
            DurationBag(RunSize - r.failed - r.slowReady, r.slowReady),
        !.devworkspaceReadyFailed    = r.failed,
        !.devworkspaceDeleteDuration = DurationBag(RunSize - r.slowDelete, r.slowDelete),
        !.operatorCpuViolations      = r.cpuViolations,
        !.operatorMemViolations      = r.memViolations,
        !.operatorPodRestarts        = r.operatorRestarts,
        !.etcdPodRestarts            = r.etcdRestarts,
        !.checksPassed               = ChecksOf(RunSize) - r.checksFailed,
        !.checksFailed               = r.checksFailed]

\* the run is over and its thresholds are about to be evaluated
InitVerdict ==
    /\ executorMode = "shared-iterations"
    /\ useSeparateNamespaces = FALSE
    /\ deleteDevWorkspaceAfterReady = TRUE
    /\ devWorkspaceReadyTimeout = MaxTimeout
    /\ maxDevWorkspaces = RunSize
    /\ externalDevWorkspaceLink = FALSE
    /\ apiServer = TRUE
    /\ shouldCreateAutomountResources = FALSE
    /\ vuId = [v \in VUs |-> v]
    /\ phase = "stopped"
    /\ cleanup = "done"
    /\ verdict = "pending"
    /\ iterationInTest = RunSize
    /\ vu = [v \in VUs |-> IdleVU]
    /\ it = [v \in VUs |-> NewIteration]
    /\ pending = NoUpdates
    /\ requests = NoRequests
    /\ units = NoUnits
    /\ webhook = NoWebhook
    /\ suite = NoSuite
    /\ hook = NoHook
    /\ \E r \in [failed : {0, 2, 4, 5},
                  slowCreate : {0, 1}, slowReady : {0, 1}, slowDelete : {0, 1},
                  cpuViolations : {0, 1}, memViolations : {0, 1},
                  operatorRestarts : {0, MaxRestarts}, etcdRestarts : {0, MaxRestarts},
                  checksFailed : {0, RunSize \div 2, RunSize}] :
         metrics = FinalMetrics(r)

NextVerdict == EvaluateThresholds

SpecVerdict == InitVerdict /\ [][NextVerdict]_vars

(***************************************************************************)
(* The poller of devworkspace_load_test.js: a fixed number of attempts, no *)
(* tracking of failure phases, its own sampler without restart checks      *)
(***************************************************************************)
\* the poll loop of the script is studied for one virtual user
LegacyVUs == {Min(VUs)}

\* checkDevWorkspaceOperatorMetrics of the script
legacyCheckDevWorkspaceOperatorMetrics(m, res) ==
    IF res.status # 200 THEN [m |-> m, threw |-> FALSE]
    ELSE IF ~res.usable THEN [m |-> m, threw |-> TRUE]
    ELSE [m |-> SampleOperatorPods(m, res.items), threw |-> FALSE]

\* the metrics createNewDevWorkspace of the script leaves for a create answer
legacyCreateMetrics(m, status, duration) ==
    IF ~CreateAccepted(status) THEN m
    ELSE [m EXCEPT !.devworkspaceCreateDuration = Add(@, duration),
                   !.devworkspacesCreated = @ + 1]

\* namespace of the default function
legacyNamespace(separate, id, iteration) ==
    IF separate
    THEN <<"load-test-ns-">> \o Decimal(id) \o <<"-">> \o Decimal(iteration)
    ELSE <<"default">>

\* a parameter the call gives no argument for, as a template literal prints it
undefined == <<"undefined">>

\* dwUrl of deleteDevWorkspace(crName, namespace): its namespace and name
legacyDeleteUrl(name, ns) == <<ns, name>>

\* the default function up to the poll loop
legacyDefault(v) ==
    /\ phase = "stages"
    /\ vu[v].pc = "idle"
    /\ iterationInTest < MaxIterations
    /\ iterationInTest' = iterationInTest + 1
    /\ \E status \in {201, 409, 403}, duration \in Measured :
         LET trace == [NewIteration EXCEPT
                          !.how = "running", !.posts = 1, !.createStatus = status,
                          !.created = <<legacyNamespace(useSeparateNamespaces,
                                                        vuId[v], vu[v].iter),
                                        DevWorkspaceName(vuId[v], vu[v].iter)>>]
         IN  /\ metrics' = legacyCreateMetrics(metrics, status, duration)
             /\ IF CreateAccepted(status)
                THEN /\ vu' = [vu EXCEPT ![v].pc = "legacyPoll"]
                     /\ it' = [it EXCEPT ![v] = trace]
                ELSE EndIteration(v, "createRejected", trace)
    /\ requests' = [requests EXCEPT !.create = @ + 1]
    /\ UNCHANGED <<config, schedule, pending, units, scripts>>

\* the code after the loop when the loop ended without a ready phase: the
\* failure counter is added to whenever the last answer had status 200, and
\* the body of that answer is parsed again
legacyAfterLoop(m, res) ==
    IF res.status # 200 THEN [m |-> m, threw |-> FALSE]
    ELSE [m |-> [m EXCEPT !.devworkspaceReadyFailed = @ + 1], threw |-> ~res.usable]

\* one pass of the loop of waitUntilDevWorkspaceIsReady and, when the loop
\* ends with it, the code after the loop
legacyWaitUntilDevWorkspaceIsReady(v) ==
    /\ vu[v].pc = "legacyPoll"
    /\ \E res \in StatusResponses, metricsRes \in MetricsResponses(metrics),
          duration \in Measured :
         LET obs      == Observe(res)
             trace    == [it[v] EXCEPT !.gets = @ + 1,
                                      !.failureSeen = @ \/ obs = "failed"]
             sampled  == legacyCheckDevWorkspaceOperatorMetrics(metrics, metricsRes)
             attempts == vu[v].attempts + 1
             after    == legacyAfterLoop(sampled.m, res)
         IN  IF obs = "ready"
             THEN /\ metrics' = [metrics EXCEPT
                                   !.devworkspaceReady = @ + 1,
                                   !.devworkspaceReadyDuration = Add(@, duration)]
                  /\ vu' = [vu EXCEPT ![v].pc = "legacyDelete"]
                  /\ it' = [it EXCEPT ![v] = [trace EXCEPT !.recorded = {"Ready"}]]
             ELSE IF sampled.threw
             THEN /\ metrics' = sampled.m
                  /\ EndIteration(v, "exception",
                                  [trace EXCEPT !.samplerCalls = @ + 1])
             ELSE IF attempts < legacyMaxAttempts
             THEN /\ metrics' = sampled.m
                  /\ vu' = [vu EXCEPT ![v].attempts = attempts]
                  /\ it' = [it EXCEPT ![v] = [trace EXCEPT !.samplerCalls = @ + 1]]
             ELSE /\ metrics' = after.m
                  /\ LET ended == [trace EXCEPT !.samplerCalls = @ + 1,
                                                !.recorded = {"TimedOut"}]
                     IN  IF after.threw
                         THEN EndIteration(v, "exception", ended)
                         ELSE /\ vu' = [vu EXCEPT ![v].pc = "legacyDelete"]
                              /\ it' = [it EXCEPT ![v] = ended]
    /\ UNCHANGED <<config, schedule, iterationInTest, pending, requests, units, scripts>>

\* deleteDevWorkspace of the script, called after every poll loop
legacyDeleteDevWorkspace(v) ==
    /\ vu[v].pc = "legacyDelete"
    /\ \E duration \in Measured :
         /\ metrics' = DeleteMetrics(metrics, duration)
         /\ EndIteration(v, "completed",
                         [it[v] EXCEPT
                             !.deletes = @ + 1,
                             !.deleted = legacyDeleteUrl(crName(vuId[v], vu[v].iter),
                                                         undefined)])
    /\ UNCHANGED <<config, schedule, iterationInTest, pending, requests, units, scripts>>

\* the script has no switches: ramping-vus, one namespace, delete always
InitLegacy ==
    /\ executorMode = "ramping-vus"
    /\ useSeparateNamespaces = FALSE
    /\ deleteDevWorkspaceAfterReady = TRUE
    /\ devWorkspaceReadyTimeout = 5 * legacyMaxAttempts
    /\ maxDevWorkspaces = -1
    /\ externalDevWorkspaceLink = FALSE
    /\ apiServer = TRUE
    /\ shouldCreateAutomountResources = FALSE
    /\ vuId = [v \in VUs |-> v]
    /\ phase = "stages"
    /\ cleanup = "notStarted"
    /\ verdict = "pending"
    /\ iterationInTest = 0
    /\ vu = [v \in VUs |-> IdleVU]
    /\ it = [v \in VUs |-> NewIteration]
    /\ metrics = NewMetrics
    /\ pending = NoUpdates
    /\ requests = NoRequests
    /\ units = NoUnits
    /\ webhook = NoWebhook
    /\ suite = NoSuite
    /\ hook = NoHook

NextLegacy ==
    \/ \E v \in LegacyVUs : legacyDefault(v)
    \/ \E v \in LegacyVUs : legacyWaitUntilDevWorkspaceIsReady(v)
    \/ \E v \in LegacyVUs : legacyDeleteDevWorkspace(v)

SpecLegacy == InitLegacy /\ [][NextLegacy]_vars

(***************************************************************************)
(* The metric updates of concurrent iterations.  Each virtual user has     *)
(* started an iteration whose observations are fixed, and so are the add() *)
(* calls it makes (todo); k6 applies the calls of different virtual users  *)
(* in any order.                                                           *)
(***************************************************************************)
MetricUpdates ==
    {[metric |-> "devworkspacesCreated", kind |-> "Counter", value |-> 1],
     [metric |-> "devworkspaceStarting", kind |-> "Counter", value |-> -1]}
    \cup {[metric |-> "devworkspaceCreateDuration", kind |-> "Trend", value |-> d] :
            d \in Durations}
    \cup {[metric |-> "operatorPodRestarts", kind |-> "Gauge", value |-> r] :
            r \in {0, MaxRestarts}}

\* Counter.add and Trend.add accumulate, Gauge.add keeps the value added
AddToMetric(m, u) ==
    IF u.kind = "Counter" THEN [m EXCEPT ![u.metric] = @ + u.value]
    ELSE IF u.kind = "Trend" THEN [m EXCEPT ![u.metric] = Add(@, u.value)]
    ELSE [m EXCEPT ![u.metric] = u.value]

\* the next add() call of the iteration of v
MetricAdd(v) ==
    /\ pending[v].todo # <<>>
    /\ metrics' = AddToMetric(metrics, Head(pending[v].todo))
    /\ pending' = [pending EXCEPT ![v] = [done |-> Append(@.done, Head(@.todo)),
                                          todo |-> Tail(@.todo)]]
    /\ UNCHANGED <<config, schedule, iterationInTest, vu, it, requests, units, scripts>>

InitAggregate ==
    /\ executorMode = "shared-iterations"
    /\ useSeparateNamespaces = FALSE
    /\ deleteDevWorkspaceAfterReady = TRUE
    /\ devWorkspaceReadyTimeout = MaxTimeout
    /\ maxDevWorkspaces = MaxIterations
    /\ externalDevWorkspaceLink = FALSE
    /\ apiServer = TRUE
    /\ shouldCreateAutomountResources = FALSE
    /\ vuId = [v \in VUs |-> v]
    /\ phase = "stages"
    /\ cleanup = "notStarted"
    /\ verdict = "pending"
    /\ iterationInTest = Cardinality(VUs)
    /\ vu = [v \in VUs |-> [IdleVU EXCEPT !.pc = "create"]]
    /\ it = [v \in VUs |-> [NewIteration EXCEPT !.how = "running"]]
    /\ metrics = NewMetrics
    /\ pending \in [VUs -> {[done |-> <<>>, todo |-> t] :
                              t \in SeqsUpTo(MetricUpdates, MaxUpdates)}]
    /\ requests = NoRequests
    /\ units = NoUnits
    /\ webhook = NoWebhook
    /\ suite = NoSuite
    /\ hook = NoHook

NextAggregate == \E v \in VUs : MetricAdd(v)

SpecAggregate == InitAggregate /\ [][NextAggregate]_vars

(***************************************************************************)
(* Properties                                                              *)
(***************************************************************************)
\* the iterations that ended by themselves: by return or in the catch block
EndedHow == {"createRejected", "exception", "completed"}

CeilDiv(a, b) == (a + b - 1) \div b

\* C1: every iteration of the default function that has ended has recorded
\* exactly one of Ready, Failed and TimedOut: never none, never two
C1_ExactlyOneClassification ==
    \A v \in VUs :
        it[v].how \in EndedHow => Cardinality(it[v].recorded \cap Classifications) = 1

\* C2: devworkspace_ready_failed changes only in a step of an iteration that
\* has observed a failure phase; a poll loop that runs out of attempts
\* without one leaves the counter as it is
C2_FailedCounterOnlyOnFailurePhase ==
    [][metrics'.devworkspaceReadyFailed # metrics.devworkspaceReadyFailed
         => \E v \in VUs : it'[v] # it[v] /\ it'[v].failureSeen]_vars

\* C3: an iteration sends one create POST at most; answered 201 or 409 it goes
\* on to polling and counts the create; answered anything else it ends there,
\* with no GET, no sampler call, no DELETE, no classification and no metric
\* changed
C3_CreateRejectedEndsIteration ==
    /\ [](\A v \in VUs :
            /\ it[v].posts <= 1
            /\ it[v].posts = 1 =>
                 IF it[v].createStatus \in {201, 409}
                 THEN it[v].how # "createRejected"
                 ELSE /\ it[v].how = "createRejected"
                      /\ it[v].gets = 0
                      /\ it[v].samplerCalls = 0
                      /\ it[v].deletes = 0
                      /\ it[v].recorded = {})
    /\ [][\A v \in VUs :
            it'[v].posts = it[v].posts + 1 =>
              IF it'[v].createStatus \in {201, 409}
              THEN /\ vu'[v].pc = "poll"
                   /\ metrics'.devworkspacesCreated = metrics.devworkspacesCreated + 1
                   /\ metrics'.devworkspaceReady = metrics.devworkspaceReady
                   /\ metrics'.devworkspaceReadyFailed = metrics.devworkspaceReadyFailed
              ELSE /\ vu'[v].pc = "idle"
                   /\ metrics' = metrics]_vars

\* an iteration whose create was answered 403 has ended, and one whose create
\* was answered 409 is polling
C3_Witness ==
    /\ \E v \in VUs : it[v].createStatus = 403 /\ it[v].how = "createRejected"
    /\ \E v \in VUs : it[v].createStatus = 409 /\ vu[v].pc = "poll"

\* C4: a poll loop never sends more than ceil(timeout / interval) GETs, and
\* an iteration that has polled and ended without observing a ready or a
\* failure phase has sent exactly that many and is recorded as TimedOut
C4_NeverTerminalEndsTimedOut ==
    \A v \in VUs :
        /\ it[v].gets <= CeilDiv(devWorkspaceReadyTimeout, pollWaitInterval)
        /\ (/\ it[v].how \in EndedHow
            /\ it[v].gets > 0
            /\ it[v].recorded \cap {"Ready", "Failed"} = {})
           => /\ it[v].recorded = {"TimedOut"}
              /\ it[v].gets = CeilDiv(devWorkspaceReadyTimeout, pollWaitInterval)

\* every threshold but the one on devworkspace_ready_failed is met
OthersSatisfied(m) ==
    /\ BagToSet(m.devworkspaceCreateDuration) \subseteq {Min(Durations)}
    /\ BagToSet(m.devworkspaceDeleteDuration) \subseteq {Min(Durations)}
    /\ BagToSet(m.devworkspaceReadyDuration) \subseteq {Min(Durations)}
    /\ m.operatorCpuViolations = 0
    /\ m.operatorMemViolations = 0
    /\ m.operatorPodRestarts = 0
    /\ m.etcdPodRestarts = 0
    /\ m.checksFailed = 0
    /\ m.checksPassed > 0

C6_CleanupAfterMainScenario ==
    cleanup = "done" =>
        \A v \in VUs : vu[v].pc \notin {"create", "poll", "operatorMetrics", "etcdMetrics"}

\* the metrics after the calls of the virtual users of S made one virtual
\* user after the other, in the order of their ids
RECURSIVE ApplyAll(_, _)
ApplyAll(m, updates) ==
    IF updates = <<>> THEN m
    ELSE ApplyAll(AddToMetric(m, Head(updates)), Tail(updates))

RECURSIVE OneAfterAnother(_, _)
OneAfterAnother(m, S) ==
    IF S = {} THEN m
    ELSE OneAfterAnother(ApplyAll(m, pending[Min(S)].done), S \ {Min(S)})

AllUpdatesMade == \A v \in VUs : pending[v].todo = <<>>

\* C7: once every update is made, every metric holds what it holds when the
\* same updates are made one virtual user after the other: the order of the
\* updates of concurrent iterations does not show in the final metrics
C7_SameForEveryInterleaving ==
    AllUpdatesMade => metrics = OneAfterAnother(NewMetrics, VUs)

\* C8: no exception leaves the sampler: an iteration that has begun to poll
\* does not end in the catch block of the default function
C8_SamplerFailureOnlySkipsTick ==
    \A v \in VUs : it[v].how = "exception" => it[v].gets = 0

\* C9 (as amended): the sampler has been called once for every GET that
\* observed neither a ready nor a failure phase, and for no other GET; the
\* GET that observes a failure phase leaves the loop without a sampler call
C9_SamplerOncePerInconclusiveTick ==
    \A v \in VUs :
        /\ vu[v].pc = "operatorMetrics" =>
              it[v].samplerCalls = it[v].gets - 1 /\ ~it[v].failureSeen
        /\ vu[v].pc \in {"poll", "etcdMetrics"} =>
              it[v].samplerCalls = it[v].gets /\ ~it[v].failureSeen
        /\ it[v].recorded \cap {"Ready", "Failed"} # {} =>
              it[v].samplerCalls = it[v].gets - 1
        /\ "TimedOut" \in it[v].recorded => it[v].samplerCalls = it[v].gets
        /\ it[v].failureSeen => "Failed" \in it[v].recorded

\* an iteration has polled twice: the first GET was followed by a sampler
\* call, the second one observed a failure phase and was not
C9_Witness ==
    \E v \in VUs :
        /\ it[v].recorded = {"Failed"}
        /\ it[v].gets = 2
        /\ it[v].samplerCalls = 1

\* C9 (as claimed): the sampler is called once for every GET that does not
\* observe a ready phase, the GET that observes a failure phase included
C9_SamplerOnEveryNonReadyTick ==
    \A v \in VUs : "Failed" \in it[v].recorded => it[v].samplerCalls = it[v].gets

\* the number of values of a trend above a ceiling
CpuSamplesAbove(trend, ceiling) ==
    BagCardinality([x \in {y \in BagToSet(trend) : y > ceiling} |-> trend[x]])

MemorySamplesAbove(trend, ceiling) ==
    BagCardinality([x \in {y \in BagToSet(trend) : y.num > ceiling * y.den} |-> trend[x]])

\* C10: the CPU violation counter is the number of operator pod samples
\* above 250 millicores, the memory violation counter the number of samples
\* above 200 MiB: one increment for each such sample and none for the others
C10_ViolationPerSampleAboveCeiling ==
    /\ metrics.operatorCpuViolations = CpuSamplesAbove(metrics.operatorCpu, 250)
    /\ metrics.operatorMemViolations =
          MemorySamplesAbove(metrics.operatorMemory, 200 * 1024 * 1024)

\* the run has sampled an operator pod at 251 millicores and counted one
\* CPU violation for it
C10_Witness ==
    /\ 251 \in BagToSet(metrics.operatorCpu)
    /\ metrics.operatorCpuViolations = 1

\* the values the add() calls made so far have given to a gauge
GaugeValuesAdded(gauge) ==
    UNION {{pending[v].done[i].value :
              i \in {j \in DOMAIN pending[v].done : pending[v].done[j].metric = gauge}} :
           v \in VUs}

\* C11: the restart gauge of the operator pods holds the largest restart
\* count added to it so far (0 before any): a smaller count added later
\* does not lower it
C11_GaugeHoldsMaximum ==
    metrics.operatorPodRestarts = Max({0} \cup GaugeValuesAdded("operatorPodRestarts"))

\* C12: an iteration has sent a DELETE for its resource only if
\* DELETE_DEVWORKSPACE_AFTER_READY is on and it has observed a ready phase;
\* an iteration recorded as Failed or TimedOut has sent none
C12_DeleteOnlyAfterReady ==
    \A v \in VUs :
        /\ it[v].deletes <= 1
        /\ it[v].deletes = 1 =>
              deleteDevWorkspaceAfterReady /\ "Ready" \in it[v].recorded

\* C13: while the GET of a tick was answered by a non-200 status or by a body
\* that does not parse, the iteration is in its poll loop with nothing
\* recorded; and unless the run ends first, that tick goes on through the
\* sampler and back to the GET when attempts * interval < timeout, and
\* otherwise ends the loop as TimedOut, never as Ready or Failed
C13_InconclusiveTickKeepsPolling ==
    /\ [](\A v \in VUs :
            it[v].inconclusiveGet =>
                /\ vu[v].pc \in {"operatorMetrics", "etcdMetrics"}
                /\ it[v].how = "running"
                /\ it[v].recorded = {}
                /\ ~it[v].failureSeen)
    /\ [][\A v \in VUs :
            (/\ it[v].inconclusiveGet
             /\ vu'[v] # vu[v]
             /\ it'[v].how # "interrupted")
            => IF vu[v].pc = "operatorMetrics"
               THEN vu'[v].pc = "etcdMetrics"
               ELSE IF (vu[v].attempts + 1) * pollWaitInterval < devWorkspaceReadyTimeout
               THEN /\ vu'[v].pc = "poll"
                    /\ vu'[v].attempts = vu[v].attempts + 1
                    /\ it'[v].recorded = {}
               ELSE it'[v].recorded = {"TimedOut"}]_vars

(***************************************************************************)
(* Runs with DEVWORKSPACE_LINK set: shared-iterations, one namespace       *)
(***************************************************************************)
InitTemplate ==
    /\ executorMode = "shared-iterations"
    /\ useSeparateNamespaces = FALSE
    /\ deleteDevWorkspaceAfterReady \in BOOLEAN
    /\ devWorkspaceReadyTimeout \in Timeouts
    /\ maxDevWorkspaces = MaxIterations
    /\ externalDevWorkspaceLink = TRUE
    /\ apiServer = TRUE
    /\ shouldCreateAutomountResources = FALSE
    /\ vuId = [v \in VUs |-> v]
    /\ phase = "stages"
    /\ cleanup = "notStarted"
    /\ verdict = "pending"
    /\ iterationInTest = 0
    /\ vu = [v \in VUs |-> IdleVU]
    /\ it = [v \in VUs |-> NewIteration]
    /\ metrics = NewMetrics
    /\ pending = NoUpdates
    /\ requests = NoRequests
    /\ units = NoUnits
    /\ webhook = NoWebhook
    /\ suite = NoSuite
    /\ hook = NoHook

NextTemplate ==
    \/ \E v \in VUs : StartIteration(v)
    \/ \E v \in VUs : createNewDevWorkspace(v)
    \/ \E v \in VUs : PollGet(v)
    \/ \E v \in VUs : OperatorMetrics(v)
    \/ \E v \in VUs : EtcdMetrics(v)
    \/ \E v \in VUs : deleteDevWorkspace(v)
    \/ SharedIterationsDone
    \/ final_cleanup

SpecTemplate == InitTemplate /\ [][NextTemplate]_vars

\* C14: with an external template URL configured, a run sends at most one
\* GET to that URL, however many iterations it runs
C14_TemplateFetchedAtMostOnce ==
    externalDevWorkspaceLink => requests.template <= 1

\* C15: an iteration whose template GET was answered by a non-200 status or
\* by a body that does not parse has ended in the catch block with that
\* single GET, no POST, no status GET, no DELETE and nothing recorded; the
\* step that receives the answer changes no metric, leaves the other
\* virtual users and the schedule alone and frees the virtual user for its
\* next iteration
C15_TemplateFailureAbortsIteration ==
    /\ [](\A v \in VUs :
            it[v].templateAnswer \in {"non200", "unparseable"} =>
                /\ it[v].how = "exception"
                /\ vu[v].pc = "idle"
                /\ it[v].posts = 0
                /\ it[v].gets = 0
                /\ it[v].deletes = 0
                /\ it[v].recorded = {})
    /\ [][\A v \in VUs :
            (/\ it'[v].templateAnswer \in {"non200", "unparseable"}
             /\ it[v].templateAnswer = "none")
            => /\ requests' = [requests EXCEPT !.template = @ + 1]
               /\ requests'.create = requests.create
               /\ metrics' = metrics
               /\ vu'[v] = [IdleVU EXCEPT !.iter = vu[v].iter + 1]
               /\ \A w \in VUs \ {v} : vu'[w] = vu[w] /\ it'[w] = it[w]
               /\ UNCHANGED <<schedule, iterationInTest>>]_vars

\* an iteration was aborted by a template body that does not parse, and the
\* iteration of another virtual user has created its resource and seen it Ready
C15_Witness ==
    \E v, w \in VUs :
        /\ v # w
        /\ it[v].templateAnswer = "unparseable"
        /\ it[v].how = "exception"
        /\ it[w].templateAnswer = "parsed"
        /\ "Ready" \in it[w].recorded
        /\ metrics.devworkspacesCreated = 1

(***************************************************************************)
(* Runs from setup on, with and without KUBE_API: ramping-vus, one         *)
(* namespace, the resources left to the final cleanup                      *)
(***************************************************************************)
InitSetup ==
    /\ executorMode = "ramping-vus"
    /\ useSeparateNamespaces = FALSE
    /\ deleteDevWorkspaceAfterReady = FALSE
    /\ devWorkspaceReadyTimeout = MaxTimeout - 5
    /\ maxDevWorkspaces \in {-1, 1}
    /\ externalDevWorkspaceLink = FALSE
    /\ apiServer \in BOOLEAN
    /\ shouldCreateAutomountResources \in BOOLEAN
    /\ vuId = [v \in VUs |-> v]
    /\ phase = "setup"
    /\ cleanup = "notStarted"
    /\ verdict = "pending"
    /\ iterationInTest = 0
    /\ vu = [v \in VUs |-> IdleVU]
    /\ it = [v \in VUs |-> NewIteration]
    /\ metrics = NewMetrics
    /\ pending = NoUpdates
    /\ requests = NoRequests
    /\ units = NoUnits
    /\ webhook = NoWebhook
    /\ suite = NoSuite
    /\ hook = NoHook

NextSetup ==
    \/ setup
    \/ \E v \in VUs : StartIteration(v)
    \/ \E v \in VUs : createNewDevWorkspace(v)
    \/ \E v \in VUs : PollGet(v)
    \/ \E v \in VUs : OperatorMetrics(v)
    \/ \E v \in VUs : EtcdMetrics(v)
    \/ ScenarioDurationElapsed
    \/ GracefulStopElapsed
    \/ final_cleanup

SpecSetup == InitSetup /\ [][NextSetup]_vars

\* C16: in a run without an API endpoint no HTTP request is sent by setup
\* and no iteration of the default function is run
C16_NoApiServerFailsFast ==
    ~apiServer =>
        /\ requests.setup = 0
        /\ iterationInTest = 0
        /\ \A v \in VUs : it[v].how = "none"

\* C18: the step of final_cleanup changes no metric and no verdict, does not
\* end teardown (where it runs in shared-iterations mode) with an exception,
\* whatever answers its requests get, and in separate-namespace mode sends
\* its list GET and, after a usable list, one DELETE per listed namespace
C18_CleanupLeavesVerdictAlone ==
    [][cleanup' # cleanup =>
          /\ metrics' = metrics
          /\ verdict' = verdict
          /\ executorMode = "shared-iterations" => cleanup' = "done"
          /\ requests'.cleanup - requests.cleanup
                \in (IF useSeparateNamespaces THEN {1, 1 + MaxNamespaces} ELSE {1})]_vars

(***************************************************************************)
(* Two iterations under way, of any two different (vuId, iteration) pairs  *)
(***************************************************************************)
NameNumbers == {1, 11}

InitNames ==
    /\ executorMode = "shared-iterations"
    /\ useSeparateNamespaces \in BOOLEAN
    /\ deleteDevWorkspaceAfterReady = TRUE
    /\ devWorkspaceReadyTimeout = MaxTimeout - 5
    /\ maxDevWorkspaces = MaxIterations
    /\ externalDevWorkspaceLink = FALSE
    /\ apiServer = TRUE
    /\ shouldCreateAutomountResources = FALSE
    /\ vuId \in [VUs -> NameNumbers]
    /\ phase = "stages"
    /\ cleanup = "notStarted"
    /\ verdict = "pending"
    /\ iterationInTest = MaxIterations
    /\ \E iteration \in [VUs -> NameNumbers] :
          /\ \A v, w \in VUs :
                v # w => <<vuId[v], iteration[v]>> # <<vuId[w], iteration[w]>>
          /\ vu = [v \in VUs |->
                    [pc |-> IF useSeparateNamespaces THEN "namespace" ELSE "create",
                     iter |-> iteration[v], attempts |-> 0]]
    /\ it = [v \in VUs |-> [NewIteration EXCEPT !.how = "running"]]
    /\ metrics = NewMetrics
    /\ pending = NoUpdates
    /\ requests = NoRequests
    /\ units = NoUnits
    /\ webhook = NoWebhook
    /\ suite = NoSuite
    /\ hook = NoHook

NextNames ==
    \/ \E v \in VUs : createNewNamespace(v)
    \/ \E v \in VUs : createNewDevWorkspace(v)
    \/ \E v \in VUs : PollGet(v)
    \/ \E v \in VUs : OperatorMetrics(v)
    \/ \E v \in VUs : EtcdMetrics(v)
    \/ \E v \in VUs : deleteDevWorkspace(v)
    \/ SharedIterationsDone
    \/ final_cleanup

SpecNames == InitNames /\ [][NextNames]_vars

\* the __ITER of the current or last iteration of v
IterationOf(v) == IF vu[v].pc = "idle" THEN vu[v].iter - 1 ELSE vu[v].iter

\* C17: the status GETs and the DELETE of an iteration address the
\* namespace and name its create POST addressed; and two iterations of
\* different (vuId, iteration) pairs have posted different names, in
\* separate-namespace mode to different namespaces
C17_DistinctResources ==
    /\ \A v \in VUs :
          /\ it[v].polled # <<>> => it[v].polled = it[v].created
          /\ it[v].deleted # <<>> => it[v].deleted = it[v].created
    /\ \A v, w \in VUs :
          (/\ <<vuId[v], IterationOf(v)>> # <<vuId[w], IterationOf(w)>>
           /\ it[v].created # <<>>
           /\ it[w].created # <<>>)
          => /\ it[v].created[2] # it[w].created[2]
             /\ useSeparateNamespaces => it[v].created[1] # it[w].created[1]

\* iteration 11 of virtual user 1 and iteration 1 of virtual user 11 have
\* both created, polled and deleted their resource, each in its namespace
C17_Witness ==
    \E v, w \in VUs :
        /\ useSeparateNamespaces
        /\ vuId[v] = 1 /\ IterationOf(v) = 11
        /\ vuId[w] = 11 /\ IterationOf(w) = 1
        /\ it[v].deleted # <<>> /\ it[v].polled # <<>>
        /\ it[w].deleted # <<>> /\ it[w].polled # <<>>

(***************************************************************************)
(* The unit conversions by themselves: a CPU quantity in millionths of a   *)
(* core and a memory number with a binary suffix, parsed from each way of  *)
(* writing them that the metrics API has                                   *)
(***************************************************************************)
CpuQuantities == {0, 1000, 250000, 251000, 1005000, 1499, 1500, 250500}

MemoryQuantities ==
    {<<0, "Gi">>, <<1, "Ki">>, <<200, "Ki">>, <<1, "Mi">>, <<200, "Mi">>, <<1, "Gi">>}

\* the CPU quantity written with a suffix, or as a decimal number of cores
\* with three decimals
WrittenCpu(micro, suffix) ==
    IF suffix = "n" THEN Q(micro * 1000, 0, "n")
    ELSE IF suffix = "u" THEN Q(micro, 0, "u")
    ELSE IF suffix = "m" THEN Q(micro \div 1000, 0, "m")
    ELSE Q(micro \div 1000000, (micro \div 1000) % 1000, "")

\* the ways a CPU quantity can be written without a fraction of the unit
CpuSuffixes(micro) ==
    IF micro % 1000 = 0 THEN {"n", "u", "m", ""} ELSE {"n", "u"}

\* the memory quantity written with its suffix or as a number of bytes
WrittenMemory(quantity, inBytes) ==
    IF ~inBytes THEN Q(quantity[1], 0, quantity[2])
    ELSE IF quantity[2] = "Ki" THEN Q(quantity[1] * 1024, 0, "")
    ELSE IF quantity[2] = "Mi" THEN Q(quantity[1] * 1024 * 1024, 0, "")
    ELSE Q(quantity[1] * 1024 * 1024 * 1024, 0, "")

ParseCpu ==
    /\ \E suffix \in CpuSuffixes(units.micro) :
          units' = [units EXCEPT !.cpu =
              @ \cup {<<suffix, parseCpuToMillicores(WrittenCpu(units.micro, suffix))>>}]
    /\ UNCHANGED <<config, schedule, iterationInTest, vu, it, metrics, pending,
                   requests, scripts>>

ParseMemory ==
    /\ \E inBytes \in BOOLEAN :
          units' = [units EXCEPT !.memory =
              @ \cup {<<inBytes,
                        parseMemoryToBytes(WrittenMemory(units.number, inBytes))>>}]
    /\ UNCHANGED <<config, schedule, iterationInTest, vu, it, metrics, pending,
                   requests, scripts>>

InitUnits ==
    /\ executorMode = "shared-iterations"
    /\ useSeparateNamespaces = FALSE
    /\ deleteDevWorkspaceAfterReady = TRUE
    /\ devWorkspaceReadyTimeout = MaxTimeout
    /\ maxDevWorkspaces = MaxIterations
    /\ externalDevWorkspaceLink = FALSE
    /\ apiServer = TRUE
    /\ shouldCreateAutomountResources = FALSE
    /\ vuId = [v \in VUs |-> v]
    /\ phase = "stages"
    /\ cleanup = "notStarted"
    /\ verdict = "pending"
    /\ iterationInTest = 0
    /\ vu = [v \in VUs |-> IdleVU]
    /\ it = [v \in VUs |-> NewIteration]
    /\ metrics = NewMetrics
    /\ pending = NoUpdates
    /\ requests = NoRequests
    /\ \E micro \in CpuQuantities, quantity \in MemoryQuantities :
          units = [micro |-> micro, number |-> quantity, cpu |-> {}, memory |-> {}]
    /\ webhook = NoWebhook
    /\ suite = NoSuite
    /\ hook = NoHook

NextUnits == ParseCpu \/ ParseMemory

SpecUnits == InitUnits /\ [][NextUnits]_vars

\* C19: every way of writing a CPU quantity parses to the same number of
\* millicores, which is the quantity itself when it is a whole number of
\* millicores (250 for 250m, 250000u, 250000000n and 0.25); a memory number
\* N with suffix Ki, Mi, Gi parses to N*1024, N*1024^2, N*1024^3, and so
\* does that number of bytes written without a suffix
C19_UnitsNormalize ==
    /\ \A x, y \in units.cpu : x[2] = y[2]
    /\ \A x \in units.cpu :
          units.micro % 1000 = 0 => x[2] * 1000 = units.micro
    /\ \A x \in units.memory :
          /\ x[2].den = 1
          /\ x[2].num = units.number[1] *
                (IF units.number[2] = "Ki" THEN 1024
                 ELSE IF units.number[2] = "Mi" THEN 1048576
                 ELSE 1073741824)

\* 250 millicores have been parsed from 250m, 250000u, 250000000n and 0.25,
\* and 200Mi from 200Mi and from 209715200
C19_Witness ==
    /\ units.micro = 250000
    /\ units.cpu = {<<"n", 250>>, <<"u", 250>>, <<"m", 250>>, <<"", 250>>}
    /\ units.number = <<200, "Mi">>
    /\ units.memory = {<<FALSE, [num |-> 209715200, den |-> 1]>>,
                       <<TRUE, [num |-> 209715200, den |-> 1]>>}

\* the iterations whose create POST was answered 201 or 409, and those
\* that recorded a ready phase
IterationsCreated == {v \in VUs : it[v].createStatus \in {201, 409}}

IterationsReady == {v \in VUs : "Ready" \in it[v].recorded}

\* C20: when the run of one iteration per virtual user is over, the create
\* counter and the create-latency trend hold one entry per iteration whose
\* create was accepted, and the ready counter and the ready-latency trend
\* one entry per iteration that ended Ready; if every iteration saw its
\* resource ready on its first GET (its one GET saw no failure phase and
\* did not go on to the sampler), all are Ready, none Failed or TimedOut
C20_OneEntryPerIteration ==
    phase = "stopped" =>
        /\ metrics.devworkspacesCreated = Cardinality(IterationsCreated)
        /\ BagCardinality(metrics.devworkspaceCreateDuration)
              = Cardinality(IterationsCreated)
        /\ metrics.devworkspaceReady = Cardinality(IterationsReady)
        /\ BagCardinality(metrics.devworkspaceReadyDuration)
              = Cardinality(IterationsReady)
        /\ (\A v \in VUs : it[v].gets = 1 /\ it[v].samplerCalls = 0
                              /\ ~it[v].failureSeen)
            => /\ IterationsReady = VUs
               /\ IterationsCreated = VUs
               /\ metrics.devworkspaceReadyFailed = 0
               /\ \A v \in VUs : it[v].recorded = {"Ready"}

\* the run is over and each of the concurrent iterations saw its resource
\* ready on its first GET
C20_Witness ==
    /\ phase = "stopped"
    /\ \A v \in VUs : it[v].gets = 1 /\ it[v].samplerCalls = 0
                        /\ it[v].how = "completed"
    /\ metrics.devworkspaceReady = Cardinality(VUs)
    /\ BagCardinality(metrics.devworkspaceReadyDuration) = Cardinality(VUs)
    /\ BagCardinality(metrics.devworkspaceCreateDuration) = Cardinality(VUs)

\* C21: with a positive MAX_DEVWORKSPACES the create POSTs sent so far by
\* all the iterations of the run, and the create counter, are at most that
\* number, in both executor modes
C21_CreatesWithinMaximum ==
    maxDevWorkspaces > 0 =>
        /\ requests.create <= maxDevWorkspaces
        /\ metrics.devworkspacesCreated <= maxDevWorkspaces

\* in ramping-vus mode the one allowed create has been sent and a later
\* iteration has returned at the top of the default function
C21_Witness ==
    /\ executorMode = "ramping-vus"
    /\ maxDevWorkspaces = 1
    /\ requests.create = 1
    /\ \E v \in VUs : it[v].how = "skipped"


(***************************************************************************)
(* The webhook load test (devworkspace_webhook_loadtest.js): setup creates *)
(* one workspace per user, each iteration of the default function lists    *)
(* the workspaces of the test namespace and attempts an exec into each.    *)
(* The counters are kept; the rates and the latency trends are not.        *)
(***************************************************************************)

\* the users of K6_USERS_FILE, by their user field
users == <<"user1", "user2">>

NUMBER_OF_USERS == Len(users)

\* arr[i] of the source: the arrays of the source count from zero
At(arr, i) == arr[i + 1]

\* a workspace of the test namespace that this run did not create
foreignDwName == <<"workspace">>

NewWebhookCounters ==
    [execAttempted |-> 0, execSkipped |-> 0, execAllowed |-> 0, execDenied |-> 0,
     execUnexpectedAllowed |-> 0, execUnexpectedDenied |-> 0,
     invalidMutatingDeny |-> 0]

NoAttempt == [n |-> 0]

IdleWebhookVU == [pc |-> "idle", user |-> "", dwName |-> <<>>, names |-> <<>>,
                  last |-> NoAttempt]

\* the answers to the exec POST: the HTTP status (0: no response), whether
\* the body is a string, whether it parses, the code of the parsed Status and
\* whether its message holds 'upgrade request required'
ExecResponses ==
    { [status |-> 400, text |-> TRUE, json |-> TRUE, code |-> 400, upgrade |-> TRUE],
      [status |-> 403, text |-> TRUE, json |-> TRUE, code |-> 403, upgrade |-> FALSE],
      [status |-> 500, text |-> TRUE, json |-> TRUE, code |-> 500, upgrade |-> FALSE],
      [status |-> 400, text |-> TRUE, json |-> FALSE, code |-> 0, upgrade |-> FALSE],
      [status |-> 200, text |-> TRUE, json |-> TRUE, code |-> 200, upgrade |-> FALSE],
      [status |-> 0, text |-> FALSE, json |-> FALSE, code |-> 0, upgrade |-> FALSE] }

checkExecResponse(res) ==
    IF ~res.text THEN FALSE
    ELSE IF ~res.json THEN FALSE
    ELSE res.code = 400 /\ res.upgrade

\* a variant that counts an outcome only for an answer that is allowed or a
\* 403, and any other answer apart; the tally of the outcomes must tell it
\* from the source's
ExecCountedOnlyVerdicts(shouldAllow, res) ==
    IF res.status = 0 THEN "execSkipped"
    ELSE IF checkExecResponse(res)
         THEN IF shouldAllow THEN "execAllowed" ELSE "execUnexpectedAllowed"
         ELSE IF res.status = 403
              THEN IF shouldAllow THEN "execUnexpectedDenied" ELSE "execDenied"
              ELSE "invalidMutatingDeny"

\* the counter that checkExecPermission adds 1 to after exec_attempted
ExecCounted(shouldAllow, res) ==
    IF res.status = 0 THEN "execSkipped"
    ELSE LET allowed == checkExecResponse(res)
         IN  IF shouldAllow
             THEN IF allowed THEN "execAllowed"
                  ELSE IF res.status = 403 THEN "execUnexpectedDenied"
                  ELSE "execSkipped"
             ELSE IF ~allowed /\ res.status = 403 THEN "execDenied"
                  ELSE IF allowed /\ res.status = 200 THEN "execUnexpectedAllowed"
                  ELSE "execSkipped"


\* a variant that takes the next entry of the users list; the ownership of
\* the workspaces must tell it from the source's
NextUserOf(idInTest) == At(users, idInTest % Len(users))

\* users[exec.vu.idInTest - 1] of the default function
UserOf(idInTest) == At(users, idInTest - 1)

\* dwName of the default function
OwnDwName(idInTest) == <<"dw-test-">> \o Decimal(idInTest) \o <<"-">> \o <<"0">>

\* setup of the webhook test: one create per user, under the user's token;
\* the workspaces whose POST returned 201 are kept with their owner
webhookSetup ==
    /\ webhook.pc = "setup"
    /\ \E accepted \in SUBSET (0 .. Len(users) - 1) :
          webhook' = [webhook EXCEPT
                         !.pc = "running",
                         !.createdWorkspaces =
                             { [owner |-> At(users, index),
                                dwName |-> DevWorkspaceName(index + 1, 0)] :
                               index \in accepted }]
    /\ UNCHANGED <<config, schedule, iterationInTest, vu, it, metrics, pending,
                   requests, units, suite, hook>>

\* the names in a fixed order
RECURSIVE Listed(_)
Listed(names) ==
    IF names = {} THEN <<>>
    ELSE LET name == CHOOSE n \in names : \A m \in names : Len(n) >= Len(m)
         IN  <<name>> \o Listed(names \ {name})

\* getAllDevWorkspaceNames: nothing unless the list GET returns a usable 200
getAllDevWorkspaceNames(usable, names) == IF usable THEN Listed(names) ELSE <<>>

\* the start of an iteration of the default function, up to the loop
webhookDefault(k) ==
    /\ webhook.pc = "running"
    /\ webhook.iterations < NUMBER_OF_USERS
    /\ webhook.vu[k].pc = "idle"
    /\ \E usable \in BOOLEAN,
          names \in SUBSET ({w.dwName : w \in webhook.createdWorkspaces}
                            \cup {foreignDwName}) :
          LET allDwNames == getAllDevWorkspaceNames(usable, names)
          IN  webhook' = [webhook EXCEPT
                  !.iterations = @ + 1,
                  !.vu[k] = [pc |-> IF allDwNames = <<>> THEN "idle" ELSE "exec",
                             user |-> UserOf(k),
                             dwName |-> OwnDwName(k),
                             names |-> allDwNames,
                             last |-> NoAttempt]]
    /\ UNCHANGED <<config, schedule, iterationInTest, vu, it, metrics, pending,
                   requests, units, suite, hook>>

\* one round of the loop of the default function: checkExecPermission on the
\* next name, then collectWebhookPodMetrics, whose JSON.parse is unguarded
checkExecPermission(k) ==
    /\ webhook.vu[k].pc = "exec"
    /\ \E running \in BOOLEAN, res \in ExecResponses, threw \in BOOLEAN :
          LET me == webhook.vu[k]
              name == Head(me.names)
              isOwn == name = me.dwName
              counted == ExecCounted(isOwn, res)
              rest == IF threw THEN <<>> ELSE Tail(me.names)
              attempt == [n |-> me.last.n + 1, user |-> me.user, name |-> name,
                          shouldAllow |-> isOwn, attempted |-> running,
                          allowed |-> running /\ checkExecResponse(res),
                          status |-> IF running THEN res.status ELSE 0,
                          counted |-> IF running THEN counted ELSE "none"]
          IN  webhook' = [webhook EXCEPT
                  !.counters = IF running
                               THEN [@ EXCEPT !.execAttempted = @ + 1,
                                              ![counted] = @ + 1]
                               ELSE @,
                  !.vu[k] = [me EXCEPT
                                !.pc = IF rest = <<>> THEN "idle" ELSE "exec",
                                !.names = rest,
                                !.last = attempt]]
    /\ UNCHANGED <<config, schedule, iterationInTest, vu, it, metrics, pending,
                   requests, units, suite, hook>>

\* the load test of the controller stands still while another script runs
LoadTestOff ==
    /\ executorMode = "shared-iterations"
    /\ useSeparateNamespaces = FALSE
    /\ deleteDevWorkspaceAfterReady = TRUE
    /\ devWorkspaceReadyTimeout = MaxTimeout
    /\ maxDevWorkspaces = MaxIterations
    /\ externalDevWorkspaceLink = FALSE
    /\ apiServer = TRUE
    /\ shouldCreateAutomountResources = FALSE
    /\ vuId = [v \in VUs |-> v]
    /\ phase = "stopped"
    /\ cleanup = "done"
    /\ verdict = "pending"
    /\ iterationInTest = 0
    /\ vu = [v \in VUs |-> IdleVU]
    /\ it = [v \in VUs |-> NewIteration]
    /\ metrics = NewMetrics
    /\ pending = NoUpdates
    /\ requests = NoRequests
    /\ units = NoUnits

WebhookVUs == 1 .. NUMBER_OF_USERS

NewWebhook ==
    [pc |-> "setup", createdWorkspaces |-> {}, iterations |-> 0,
     vu |-> [k \in WebhookVUs |-> IdleWebhookVU],
     counters |-> NewWebhookCounters,
     patches |-> 0, asserted |-> <<>>]

InitWebhook ==
    /\ LoadTestOff
    /\ webhook = NewWebhook
    /\ suite = NoSuite
    /\ hook = NoHook

NextWebhook ==
    \/ webhookSetup
    \/ \E k \in WebhookVUs : webhookDefault(k)
    \/ \E k \in WebhookVUs : checkExecPermission(k)

SpecWebhook == InitWebhook /\ [][NextWebhook]_vars

\* C22: an exec attempt on a workspace of another user that the API server
\* allowed adds 1 to exec_unexpected_allowed_total, and nothing to
\* exec_denied_total or to exec_skipped_due_to_pod_not_ready
C22_CrossUserAllowedIsCounted ==
    [][\A k \in WebhookVUs :
          LET last == webhook'.vu[k].last
          IN  (/\ webhook'.vu[k].last # webhook.vu[k].last
               /\ last.n > 0
               /\ last.attempted
               /\ ~last.shouldAllow
               /\ last.allowed)
              => /\ webhook'.counters.execUnexpectedAllowed
                      = webhook.counters.execUnexpectedAllowed + 1
                 /\ webhook'.counters.execDenied = webhook.counters.execDenied
                 /\ webhook'.counters.execSkipped = webhook.counters.execSkipped]_vars

C28_AttemptsAreTallied ==
    webhook.counters.execAttempted
        = webhook.counters.execAllowed + webhook.counters.execDenied
          + webhook.counters.execUnexpectedAllowed
          + webhook.counters.execUnexpectedDenied
          + webhook.counters.execSkipped

C28_Witness ==
    /\ webhook.counters.execAttempted >= 3
    /\ webhook.counters.execAllowed >= 1
    /\ webhook.counters.execDenied >= 1
    /\ webhook.counters.execSkipped >= 1


(***************************************************************************)
(* The identity checks of the webhook load test.  The default function     *)
(* does not call validateDevWorkspaceAndRelatedResourcesImmutability; it   *)
(* is taken here as the operation it is, applied to a workspace that setup *)
(* created.                                                                *)
(***************************************************************************)

\* the answers to the PATCH: the HTTP status, whether the body parses, the
\* reason of the parsed Status and the webhook (or other party) whose
\* message it carries
PatchResponses ==
    { [status |-> 403, json |-> TRUE, reason |-> "Forbidden", message |-> "mutate"],
      [status |-> 403, json |-> TRUE, reason |-> "Forbidden", message |-> "mutate-ws-resources"],
      [status |-> 403, json |-> TRUE, reason |-> "Forbidden", message |-> "rbac"],
      [status |-> 404, json |-> TRUE, reason |-> "NotFound", message |-> "not found"],
      [status |-> 200, json |-> TRUE, reason |-> "", message |-> ""],
      [status |-> 502, json |-> FALSE, reason |-> "", message |-> ""] }

\* statusOk, reasonOk and messageOk of assertForbidden
DeniedAsExpected(res, expectedMessage) ==
    /\ res.status = 403
    /\ res.reason = "Forbidden"
    /\ res.message = expectedMessage

\* what assertForbidden adds to invalid_mutating_deny when res.json() returns
assertForbidden(res, expectedMessage) == 1

\* the two PATCHes of one call, res.json() of assertForbidden throwing on a
\* body that does not parse
validateDevWorkspaceAndRelatedResourcesImmutability ==
    /\ webhook.pc = "running"
    /\ webhook.patches < MaxPatches
    /\ \E w \in webhook.createdWorkspaces, res \in PatchResponses,
          running \in BOOLEAN, podRes \in PatchResponses :
          LET first == [res |-> res, expectedMessage |-> "mutate"]
              second == [res |-> podRes, expectedMessage |-> "mutate-ws-resources"]
          IN  IF ~res.json
              THEN webhook' = [webhook EXCEPT !.patches = @ + 1,
                                              !.asserted = <<first>>]
              ELSE IF ~running
              THEN webhook' = [webhook EXCEPT
                       !.patches = @ + 1,
                       !.asserted = <<first>>,
                       !.counters.invalidMutatingDeny =
                           @ + assertForbidden(res, "mutate")]
              ELSE IF ~podRes.json
              THEN webhook' = [webhook EXCEPT
                       !.patches = @ + 1,
                       !.asserted = <<first, second>>,
                       !.counters.invalidMutatingDeny =
                           @ + assertForbidden(res, "mutate")]
              ELSE webhook' = [webhook EXCEPT
                       !.patches = @ + 1,
                       !.asserted = <<first, second>>,
                       !.counters.invalidMutatingDeny =
                           @ + assertForbidden(res, "mutate")
                             + assertForbidden(podRes, "mutate-ws-resources")]
    /\ UNCHANGED <<config, schedule, iterationInTest, vu, it, metrics, pending,
                   requests, units, suite, hook>>

InitImmutability ==
    /\ LoadTestOff
    /\ \E accepted \in SUBSET (0 .. Len(users) - 1) :
          /\ accepted # {}
          /\ webhook = [NewWebhook EXCEPT
                           !.pc = "running",
                           !.createdWorkspaces =
                               { [owner |-> At(users, index),
                                  dwName |-> DevWorkspaceName(index + 1, 0)] :
                                 index \in accepted }]
    /\ suite = NoSuite
    /\ hook = NoHook

NextImmutability == validateDevWorkspaceAndRelatedResourcesImmutability

SpecImmutability == InitImmutability /\ [][NextImmutability]_vars

\* C23: a call of the identity checks adds to invalid_mutating_deny one for
\* each PATCH that was answered with status 403, reason Forbidden and the
\* expected message, and nothing for a PATCH answered in another way
C23_OnlyCorrectDenialsCounted ==
    [][webhook'.patches # webhook.patches =>
          webhook'.counters.invalidMutatingDeny
              = webhook.counters.invalidMutatingDeny
                + Cardinality({ i \in 1 .. Len(webhook'.asserted) :
                                  DeniedAsExpected(webhook'.asserted[i].res,
                                                   webhook'.asserted[i].expectedMessage) })]_vars


(***************************************************************************)
(* The suite runner (run_all_loadtests.sh): run_test on each test of the   *)
(* plan in turn, the script running without errexit, and the trap on INT   *)
(* and TERM.  run_test is the same in the runner of the webhook tests but  *)
(* for the copy of the failure report.                                     *)
(***************************************************************************)

\* the exit codes of `timeout $TEST_TIMEOUT $MAKE_COMMAND`: 124 when the time
\* ran out, 137 when the command was killed, else the code of the command
ExitCodes == {0, 1, 2, 124, 137}

\* a variant that takes every exit code from 124 on for a timeout; the
\* recorded statuses must tell it from the source's
TestStatusFromSignals(exit_code) ==
    IF exit_code >= 124 THEN "TIMEOUT"
    ELSE IF exit_code # 0 THEN "FAILED"
    ELSE "PASSED"

\* test_status of run_test
TestStatus(exit_code) ==
    IF exit_code = 124 THEN "TIMEOUT"
    ELSE IF exit_code # 0 THEN "FAILED"
    ELSE "PASSED"

NewSuite ==
    [pc |-> "idle", TEST_COUNT |-> 0, PASSED_COUNT |-> 0, FAILED_COUNT |-> 0,
     TEST_RESULTS |-> <<>>, exit_code |-> 0, calls |-> <<>>]

NoCall == [cleaned |-> FALSE, ran |-> FALSE, exit_code |-> 0,
           returned |-> FALSE, cleanedAfter |-> FALSE, status |-> 1]

\* run_test up to the command: the pre-test wait_for_cleanup
run_test ==
    /\ suite.pc = "idle"
    /\ suite.TEST_COUNT < MaxTests
    /\ \E cleaned \in BOOLEAN :
          LET TEST_NAME == suite.TEST_COUNT + 1
              call == [NoCall EXCEPT !.cleaned = cleaned]
          IN  IF ~cleaned
              THEN suite' = [suite EXCEPT
                       !.TEST_COUNT = @ + 1,
                       !.TEST_RESULTS = Append(@, <<TEST_NAME, "CLEANUP_FAILED">>),
                       !.FAILED_COUNT = @ + 1,
                       !.calls = Append(@, [call EXCEPT !.returned = TRUE])]
              ELSE suite' = [suite EXCEPT
                       !.pc = "command",
                       !.TEST_COUNT = @ + 1,
                       !.calls = Append(@, call)]
    /\ UNCHANGED <<config, schedule, iterationInTest, vu, it, metrics, pending,
                   requests, units, webhook, hook>>

\* the command of the test under timeout, and the status stored for it
runTestCommand ==
    /\ suite.pc = "command"
    /\ \E exit_code \in ExitCodes :
          LET test_status == TestStatus(exit_code)
          IN  suite' = [suite EXCEPT
                  !.pc = "cleanup",
                  !.exit_code = exit_code,
                  !.PASSED_COUNT = IF test_status = "PASSED" THEN @ + 1 ELSE @,
                  !.FAILED_COUNT = IF test_status = "PASSED" THEN @ ELSE @ + 1,
                  !.TEST_RESULTS = Append(@, <<suite.TEST_COUNT, test_status>>),
                  !.calls[suite.TEST_COUNT].ran = TRUE,
                  !.calls[suite.TEST_COUNT].exit_code = exit_code]
    /\ UNCHANGED <<config, schedule, iterationInTest, vu, it, metrics, pending,
                   requests, units, webhook, hook>>

\* the post-test wait_for_cleanup and the return of run_test
runTestReturn ==
    /\ suite.pc = "cleanup"
    /\ \E cleaned \in BOOLEAN :
          suite' = [suite EXCEPT
                       !.pc = "idle",
                       !.calls[suite.TEST_COUNT].cleanedAfter = cleaned,
                       !.calls[suite.TEST_COUNT].status = suite.exit_code,
                       !.calls[suite.TEST_COUNT].returned = TRUE]
    /\ UNCHANGED <<config, schedule, iterationInTest, vu, it, metrics, pending,
                   requests, units, webhook, hook>>

\* INT or TERM: the summary of what is recorded, then exit 130
handle_interrupt ==
    /\ suite.pc \in {"idle", "command", "cleanup"}
    /\ suite' = [suite EXCEPT !.pc = "interrupted"]
    /\ UNCHANGED <<config, schedule, iterationInTest, vu, it, metrics, pending,
                   requests, units, webhook, hook>>

InitSuite ==
    /\ LoadTestOff
    /\ webhook = NoWebhook
    /\ suite = NewSuite
    /\ hook = NoHook

NextSuite == run_test \/ runTestCommand \/ runTestReturn \/ handle_interrupt

SpecSuite == InitSuite /\ [][NextSuite]_vars

\* the statuses recorded for a test
StatusesOf(TEST_NAME) ==
    { suite.TEST_RESULTS[i][2] :
        i \in { j \in 1 .. Len(suite.TEST_RESULTS) :
                  suite.TEST_RESULTS[j][1] = TEST_NAME } }

\* C25: a test whose run_test has returned has one entry in TEST_RESULTS;
\* its status is CLEANUP_FAILED just when the pre-test cleanup failed, and
\* then the command was not run; else TIMEOUT for exit code 124, FAILED for
\* another non-zero code, PASSED for 0, whatever the post-test cleanup did
C25_OneStatusPerTest ==
    \A t \in 1 .. Len(suite.calls) :
        LET call == suite.calls[t]
        IN  call.returned =>
              /\ Cardinality({ j \in 1 .. Len(suite.TEST_RESULTS) :
                                 suite.TEST_RESULTS[j][1] = t }) = 1
              /\ StatusesOf(t) \subseteq
                     {"PASSED", "FAILED", "TIMEOUT", "CLEANUP_FAILED"}
              /\ (StatusesOf(t) = {"CLEANUP_FAILED"}) <=> ~call.cleaned
              /\ ~call.cleaned => ~call.ran
              /\ call.cleaned =>
                    /\ call.ran
                    /\ (StatusesOf(t) = {"TIMEOUT"}) <=> call.exit_code = 124
                    /\ (StatusesOf(t) = {"FAILED"}) <=> call.exit_code \notin {0, 124}
                    /\ (StatusesOf(t) = {"PASSED"}) <=> call.exit_code = 0

C25_Witness ==
    /\ Len(suite.calls) = 3
    /\ ~suite.calls[1].cleaned /\ suite.calls[1].returned
    /\ suite.calls[2].returned /\ suite.calls[2].exit_code = 124
         /\ ~suite.calls[2].cleanedAfter
    /\ suite.calls[3].returned /\ suite.calls[3].exit_code = 137
         /\ ~suite.calls[3].cleanedAfter


(***************************************************************************)
(* The backup testing hook (backup-testing-hook.sh): the steps of          *)
(* run_backup_testing_hook under `set -euo pipefail`, called as a plain    *)
(* command, so that a step that returns non-zero ends the shell.  The      *)
(* functions of monitor-backup-jobs.sh are taken to return 0.              *)
(***************************************************************************)

NewHook(dwoc, separate_namespaces) ==
    [pc |-> "stop", status |-> "running", dwoc |-> dwoc,
     separate_namespaces |-> separate_namespaces,
     watchers |-> "off", trap |-> FALSE,
     total |-> 0, completed |-> 0, failed |-> 0, reset |-> FALSE]

\* the end of the shell on a failed step: the EXIT trap, if set, runs
\* stop_backup_watchers
ErrExit(h) ==
    [h EXCEPT !.pc = "ended", !.status = "exited",
              !.watchers = IF h.trap THEN "stopped" ELSE @]

HookUnchanged ==
    UNCHANGED <<config, schedule, iterationInTest, vu, it, metrics, pending,
                requests, units, webhook, suite>>

\* Step 1: every kubectl of it is followed by `|| true`
stop_all_workspaces ==
    /\ hook.pc = "stop"
    /\ hook' = [hook EXCEPT !.pc = "validate"]
    /\ HookUnchanged

\* Step 2: returns 1 when the kubectl get fails or the backup is not enabled
validate_dwoc_applied ==
    /\ hook.pc = "validate"
    /\ \E answered \in BOOLEAN :
          IF answered /\ hook.dwoc = "enabled"
          THEN hook' = [hook EXCEPT !.pc = "watch"]
          ELSE hook' = ErrExit(hook)
    /\ HookUnchanged

\* Step 3, and the trap on EXIT
watch_backup_jobs ==
    /\ hook.pc = "watch"
    /\ hook' = [hook EXCEPT !.pc = "wait", !.watchers = "on", !.trap = TRUE]
    /\ HookUnchanged

\* Step 4: the hook goes on when no Job was found
wait_for_backup_jobs ==
    /\ hook.pc = "wait"
    /\ \E job_count \in 0 .. MaxJobs :
          hook' = [hook EXCEPT !.pc = "completion", !.total = job_count]
    /\ HookUnchanged

\* Step 5 and Step 6
wait_for_backup_jobs_completion ==
    /\ hook.pc = "completion"
    /\ \E total \in hook.total .. MaxJobs :
       \E completed \in 0 .. total :
       \E failed \in 0 .. total - completed :
          hook' = [hook EXCEPT !.pc = "reset", !.total = total,
                               !.completed = completed, !.failed = failed]
    /\ HookUnchanged

\* Step 7: the patch that disables the backup, when the DWOC exists
reset_dwoc_config ==
    /\ hook.pc = "reset"
    /\ \E found \in BOOLEAN, patched \in BOOLEAN :
          IF ~found \/ hook.dwoc = "absent"
          THEN hook' = [hook EXCEPT !.pc = "unwatch", !.reset = TRUE]
          ELSE IF patched
          THEN hook' = [hook EXCEPT !.pc = "unwatch", !.reset = TRUE,
                                    !.dwoc = "disabled"]
          ELSE hook' = ErrExit(hook)
    /\ HookUnchanged

\* Step 8, and the end of the hook
stop_backup_watchers ==
    /\ hook.pc = "unwatch"
    /\ hook' = [hook EXCEPT !.pc = "ended", !.status = "completed",
                            !.watchers = "stopped", !.trap = FALSE]
    /\ HookUnchanged

InitHook ==
    /\ LoadTestOff
    /\ webhook = NoWebhook
    /\ suite = NoSuite
    /\ \E dwoc \in {"enabled", "disabled", "absent"},
          separate_namespaces \in BOOLEAN :
          hook = NewHook(dwoc, separate_namespaces)

NextHook ==
    \/ stop_all_workspaces
    \/ validate_dwoc_applied
    \/ watch_backup_jobs
    \/ wait_for_backup_jobs
    \/ wait_for_backup_jobs_completion
    \/ reset_dwoc_config
    \/ stop_backup_watchers

SpecHook == InitHook /\ [][NextHook]_vars

\* C26: when the hook has ended, on whatever path, reset_dwoc_config has
\* run and the backup is not enabled in the DWOC
C26_BackupResetBeforeHookEnds ==
    hook.pc = "ended" => /\ hook.reset
                         /\ hook.dwoc # "enabled"


\* the iterations whose create was accepted and that are in their poll loop
InPollLoop == { v \in VUs : vu[v].pc \in {"poll", "operatorMetrics", "etcdMetrics"} }

\* C27: devworkspace_starting is the number of iterations that are in their
\* poll loop after an accepted create, so it is never negative and is 0 when
\* no iteration is under way, however the iterations ended
C27_StartingCountsPollLoops ==
    metrics.devworkspaceStarting = Cardinality(InPollLoop)


\* C29: the DELETE of an iteration has the namespace and the name of the
\* create POST of that iteration (devworkspace_load_test.js)
C29_DeleteAddressesCreated ==
    \A v \in VUs : it[v].deletes > 0 => it[v].deleted = it[v].created


(***************************************************************************)
(* The automount resources of devworkspace_load_test.js: the two POSTs of  *)
(* setup and the DELETEs of final_cleanup, each kept with the kind, the    *)
(* namespace and the name of its URL (of its manifest for a POST)          *)
(***************************************************************************)

autoMountConfigMapName == <<"dwo-load-test-automount-configmap">>

autoMountSecretName == <<"dwo-load-test-automount-secret">>

\* url of deleteConfigMap
legacyDeleteConfigMap(ns) ==
    [kind |-> "configmaps", namespace |-> ns, name |-> autoMountConfigMapName]

\* url of deleteSecret
legacyDeleteSecret(ns) ==
    [kind |-> "secrets", namespace |-> ns, name |-> autoMountConfigMapName]

\* setup: the POST of the ConfigMap, then the POST of the Secret, each
\* throwing on an answer other than 201 and 409
legacySetup ==
    /\ phase = "setup"
    /\ IF ~shouldCreateAutomountResources
       THEN /\ phase' = "stages"
            /\ requests' = requests
       ELSE \E first \in {201, 409, 403}, second \in {201, 409, 403} :
              LET ns == legacyNamespace(FALSE, 0, 0)
                  configMap == [kind |-> "configmaps", namespace |-> ns,
                                name |-> autoMountConfigMapName]
                  secret == [kind |-> "secrets", namespace |-> ns,
                             name |-> autoMountSecretName]
              IN  IF first = 403
                  THEN /\ phase' = "aborted"
                       /\ requests' = [requests EXCEPT !.setup = @ + 1,
                                                       !.answers = <<first>>]
                  ELSE IF second = 403
                  THEN /\ phase' = "aborted"
                       /\ requests' = [requests EXCEPT
                                          !.setup = @ + 2,
                                          !.answers = <<first, second>>,
                                          !.posted = {configMap}]
                  ELSE /\ phase' = "stages"
                       /\ requests' = [requests EXCEPT
                                          !.setup = @ + 2,
                                          !.answers = <<first, second>>,
                                          !.posted = {configMap, secret}]
    /\ UNCHANGED <<config, cleanup, verdict, iterationInTest, vu, it, metrics,
                   pending, units, scripts>>

\* final_cleanup, which k6 runs as the scenario of that name
legacyFinalCleanup ==
    /\ cleanup = "notStarted"
    /\ CleanupMayStart(executorMode, phase)
    /\ \E res \in NamespaceListResponses, status \in {200, 500},
          statuses \in [{"configmaps", "secrets"} -> {200, 404, 403}] :
          LET sent == IF useSeparateNamespaces
                      THEN 1 + (IF res.status = 200 /\ res.usable
                                THEN res.items ELSE 0)
                      ELSE 1
              ns == legacyNamespace(FALSE, 0, 0)
          IN  IF useSeparateNamespaces /\ res.status = 200 /\ ~res.usable
              THEN /\ cleanup' = "threw"
                   /\ requests' = [requests EXCEPT !.cleanup = @ + sent]
              ELSE /\ cleanup' = "done"
                   /\ requests' = [requests EXCEPT
                          !.cleanup = @ + sent
                              + AutomountDeletes(shouldCreateAutomountResources),
                          !.deleted =
                              IF shouldCreateAutomountResources
                              THEN {legacyDeleteConfigMap(ns), legacyDeleteSecret(ns)}
                              ELSE {},
                          !.answers = IF shouldCreateAutomountResources
                                      THEN @ \o <<statuses["configmaps"],
                                                  statuses["secrets"]>>
                                      ELSE @]
    /\ UNCHANGED <<config, phase, verdict, iterationInTest, vu, it, metrics,
                   pending, units, scripts>>

InitAutomount ==
    /\ executorMode = "ramping-vus"
    /\ useSeparateNamespaces \in BOOLEAN
    /\ deleteDevWorkspaceAfterReady = TRUE
    /\ devWorkspaceReadyTimeout = 5 * legacyMaxAttempts
    /\ maxDevWorkspaces = -1
    /\ externalDevWorkspaceLink = FALSE
    /\ apiServer = TRUE
    /\ shouldCreateAutomountResources \in BOOLEAN
    /\ vuId = [v \in VUs |-> v]
    /\ phase = "setup"
    /\ cleanup = "notStarted"
    /\ verdict = "pending"
    /\ iterationInTest = 0
    /\ vu = [v \in VUs |-> IdleVU]
    /\ it = [v \in VUs |-> NewIteration]
    /\ metrics = NewMetrics
    /\ pending = NoUpdates
    /\ requests = [template |-> 0, setup |-> 0, cleanup |-> 0, create |-> 0,
                   posted |-> {}, deleted |-> {}, answers |-> <<>>]
    /\ units = NoUnits
    /\ webhook = NoWebhook
    /\ suite = NoSuite
    /\ hook = NoHook

NextAutomount ==
    \/ legacySetup
    \/ ScenarioDurationElapsed
    \/ GracefulStopElapsed
    \/ legacyFinalCleanup

SpecAutomount == InitAutomount /\ [][NextAutomount]_vars

\* C30: when the final cleanup is over, each automount resource that setup
\* created has been the target of a DELETE of its kind, under its name and
\* in its namespace, and no DELETE addresses a secret by the name of the
\* ConfigMap (devworkspace_load_test.js)
C30_CleanupDeletesWhatSetupCreated ==
    (shouldCreateAutomountResources /\ cleanup = "done") =>
        /\ requests.posted \subseteq requests.deleted
        /\ \A d \in requests.deleted :
              d.kind = "secrets" => d.name # autoMountConfigMapName

====
